---- MODULE Spec2Model ----
(***************************************************************************)
(* State-machine model of the honeypot service in src/main.py: the session *)
(* store (OrderedDict with LRU eviction and TTL cleanup), intelligence     *)
(* extraction, the callback trigger, the callback dispatcher with its      *)
(* circuit breaker, and the background cleanup task.                       *)
(*                                                                         *)
(* Texts are sequences of one-character strings, so that len(), lower(),   *)
(* str.count() and the three regular expressions are computed on the       *)
(* characters as the code computes them.  Time is in seconds.              *)
(***************************************************************************)
EXTENDS Integers, Sequences, FiniteSets, Bags, TLC

\* ------------------------------------------------------------------------
\* Program constants (src/main.py:50-62)
\* ------------------------------------------------------------------------
MAX_SESSIONS == 500
SESSION_TTL_MINUTES == 30
MAX_CONVERSATION_HISTORY == 10
CLEANUP_INTERVAL_SECONDS == 300
MAX_CALLBACK_RETRIES == 3
CIRCUIT_BREAKER_THRESHOLD == 5
CIRCUIT_BREAKER_TIMEOUT == 300
\* len(message) < 10 in extract_intelligence
MIN_MESSAGE_LENGTH == 10
\* total_keyword_score >= 3 in the callback trigger
SCAM_SCORE_THRESHOLD == 3
\* session.count >= 15 in the callback trigger
FALLBACK_INTERACTIONS == 15
RATE_LIMIT_REQUESTS == 10
RATE_LIMIT_WINDOW == 60
\* timedelta(minutes=...) in seconds
SECONDS_PER_MINUTE == 60

\* ------------------------------------------------------------------------
\* Characters and strings
\* ------------------------------------------------------------------------
UpperLetters ==
  <<"A","B","C","D","E","F","G","H","I","J","K","L","M","N","O","P","Q","R","S","T","U","V","W","X","Y","Z">>
LowerLetters ==
  <<"a","b","c","d","e","f","g","h","i","j","k","l","m","n","o","p","q","r","s","t","u","v","w","x","y","z">>

Digits == {"0","1","2","3","4","5","6","7","8","9"}

\* [a-zA-Z]
Letters ==
  {"A","B","C","D","E","F","G","H","I","J","K","L","M","N","O","P","Q","R","S","T","U","V","W","X","Y","Z"}
  \cup {"a","b","c","d","e","f","g","h","i","j","k","l","m","n","o","p","q","r","s","t","u","v","w","x","y","z"}

\* \s of the re module, on the characters the texts use
WhiteSpace == {" ", "\t", "\n", "\r"}

\* [a-zA-Z0-9.\-_]
UpiLocalChars == Letters \cup Digits \cup {".", "-", "_"}

\* \w of the re module (ASCII part)
WordChars == Letters \cup Digits \cup {"_"}

\* str.lower() on one character
LowerChar(c) ==
  IF \E i \in 1..26 : UpperLetters[i] = c
  THEN LowerLetters[CHOOSE i \in 1..26 : UpperLetters[i] = c]
  ELSE c

\* str.lower()
Lower(s) == [i \in 1..Len(s) |-> LowerChar(s[i])]

\* s[i:i+n] = sub
StartsAt(s, sub, i) ==
  /\ i + Len(sub) - 1 <= Len(s)
  /\ SubSeq(s, i, i + Len(sub) - 1) = sub

RECURSIVE CountFrom(_, _, _)
CountFrom(s, sub, i) ==
  IF i + Len(sub) - 1 > Len(s) THEN 0
  ELSE IF StartsAt(s, sub, i) THEN 1 + CountFrom(s, sub, i + Len(sub))
  ELSE CountFrom(s, sub, i + 1)

\* A bug: presence counted, not occurrences
StrCountPresence(s, sub) == IF CountFrom(s, sub, 1) > 0 THEN 1 ELSE 0

\* str.count(sub): the number of non-overlapping occurrences
StrCount(s, sub) == CountFrom(s, sub, 1)

\* the length of the longest run of characters of class cls starting at i
RECURSIVE RunLen(_, _, _)
RunLen(s, i, cls) ==
  IF i > Len(s) \/ i < 1 THEN 0
  ELSE IF s[i] \in cls THEN 1 + RunLen(s, i + 1, cls)
  ELSE 0

\* ------------------------------------------------------------------------
\* Precompiled patterns (src/main.py:93-95).  Each XxxMatchLen(s, i) is the
\* length of the match the pattern finds starting at position i, 0 if none.
\* ------------------------------------------------------------------------

\* UPI_PATTERN = [a-zA-Z0-9.\-_]{2,}@[a-zA-Z]{3,}
\* The local class excludes "@", so the greedy local part can only be the
\* whole run; the domain takes every letter that follows.
UpiMatchLen(s, i) ==
  LET loc == RunLen(s, i, UpiLocalChars)
      dom == RunLen(s, i + loc + 1, Letters)
  IN IF /\ loc >= 2
        /\ i + loc <= Len(s)
        /\ s[i + loc] = "@"
        /\ dom >= 3
     THEN loc + 1 + dom
     ELSE 0

\* \b between positions i-1 and i
WordBoundary(s, i) ==
  LET before == i > 1 /\ i - 1 <= Len(s) /\ s[i - 1] \in WordChars
      after  == i >= 1 /\ i <= Len(s) /\ s[i] \in WordChars
  IN before # after

\* BANK_ACCOUNT_PATTERN = \b\d{9,18}\b
\* A shorter prefix of a digit run is followed by a digit, which is no word
\* boundary, so only the whole run can match.
AccountMatchLen(s, i) ==
  LET run == RunLen(s, i, Digits)
  IN IF /\ WordBoundary(s, i)
        /\ run >= 9
        /\ run <= 18
        /\ WordBoundary(s, i + run)
     THEN run
     ELSE 0

\* URL_PATTERN = http[s]?://[^\s]+
UrlMatchLen(s, i) ==
  LET http == <<"h","t","t","p">>
      sep  == <<":","/","/">>
      opt  == IF i + 4 <= Len(s) /\ s[i + 4] = "s" /\ StartsAt(s, sep, i + 5)
              THEN 1 ELSE 0
      rest == RunLen(s, i + 4 + opt + 3, {s[k] : k \in 1..Len(s)} \ WhiteSpace)
  IN IF /\ StartsAt(s, http, i)
        /\ StartsAt(s, sep, i + 4 + opt)
        /\ rest >= 1
     THEN 4 + opt + 3 + rest
     ELSE 0

MatchLen(pattern, s, i) ==
  CASE pattern = "upi"      -> UpiMatchLen(s, i)
    [] pattern = "accounts" -> AccountMatchLen(s, i)
    [] pattern = "urls"     -> UrlMatchLen(s, i)

RECURSIVE FindAllFrom(_, _, _)
FindAllFrom(pattern, s, i) ==
  IF i > Len(s) THEN << >>
  ELSE LET n == MatchLen(pattern, s, i)
       IN IF n > 0
          THEN <<SubSeq(s, i, i + n - 1)>> \o FindAllFrom(pattern, s, i + n)
          ELSE FindAllFrom(pattern, s, i + 1)

\* Pattern.findall(s): the leftmost non-overlapping matches, in order
FindAll(pattern, s) == FindAllFrom(pattern, s, 1)

\* ------------------------------------------------------------------------
\* SCAM_KEYWORDS (src/main.py:98)
\* ------------------------------------------------------------------------
SCAM_KEYWORDS ==
  << <<"u","r","g","e","n","t">>,
     <<"v","e","r","i","f","y">>,
     <<"o","t","p">>,
     <<"c","v","v">>,
     <<"b","l","o","c","k">>,
     <<"s","u","s","p","e","n","d">>,
     <<"w","i","n","n","e","r">>,
     <<"p","r","i","z","e">>,
     <<"r","e","f","u","n","d">>,
     <<"a","c","c","o","u","n","t">>,
     <<"p","a","s","s","w","o","r","d">>,
     <<"c","o","n","f","i","r","m">> >>

\* ------------------------------------------------------------------------
\* Message texts the requests are drawn from
\* ------------------------------------------------------------------------
\* "Hi" (2 characters)
TextHi ==
  <<"H","i">>
\* "otpab@okx" (9 characters)
TextShortKw ==
  <<"o","t","p","a","b","@","o","k","x">>
\* "Test message 0" (14 characters)
TextPlain ==
  <<"T","e","s","t"," ","m","e","s","s","a","g","e"," ","0">>
\* "please verify" (13 characters)
TextKw ==
  <<"p","l","e","a","s","e"," ","v","e","r","i","f","y">>
\* "urgent urgent urgent verify verify otp" (38 characters)
TextWeighted ==
  <<"u","r","g","e","n","t"," ","u","r","g","e","n","t"," ","u","r","g","e","n","t"," ","v","e","r","i","f","y"," ","v","e","r","i","f","y"," ","o","t","p">>
\* "pay ab@ybl 123456789 http://x.co" (32 characters)
TextIntelNoKw ==
  <<"p","a","y"," ","a","b","@","y","b","l"," ","1","2","3","4","5","6","7","8","9"," ","h","t","t","p",":","/","/","x",".","c","o">>
\* "Send money to test@upi and account 1234567890123 or visit http://scam.com urgent urgent" (87 characters)
TextIntel ==
  <<"S","e","n","d"," ","m","o","n","e","y"," ","t","o"," ","t","e","s","t","@","u","p","i"," ","a","n","d"," ","a","c","c","o","u","n","t"," ","1","2","3","4","5","6","7","8","9","0","1","2","3"," ","o","r"," ","v","i","s","i","t"," ","h","t","t","p",":","/","/","s","c","a","m",".","c","o","m"," ","u","r","g","e","n","t"," ","u","r","g","e","n","t">>
\* "otp ab@ybl ab@ybl" (17 characters)
TextDup ==
  <<"o","t","p"," ","a","b","@","y","b","l"," ","a","b","@","y","b","l">>
\* "URGENT: Verify OTP" (18 characters)
TextUpper ==
  <<"U","R","G","E","N","T",":"," ","V","e","r","i","f","y"," ","O","T","P">>
\* "otp a@bcd now" (13 characters)
TextOneCharUpi ==
  <<"o","t","p"," ","a","@","b","c","d"," ","n","o","w">>


\* ------------------------------------------------------------------------
\* RESPONSES (src/main.py:161-183)
\* ------------------------------------------------------------------------
RESPONSES ==
  [early |-> << "Hello? Yes, I am here. What is this about?",
                "I don't understand. Can you explain slowly?",
                "Is this about my pension? I'm not good with phones.",
                "Who is calling? I can't hear you properly.",
                "Wait, let me put on my hearing aid." >>,
   middle |-> << "Oh no, is my account really blocked? I'm worried!",
                 "What should I do? Please help me, I don't want to lose my money.",
                 "Should I give you my card details? I trust you.",
                 "My son told me to be careful, but you sound official.",
                 "How much money do I need to pay to fix this?" >>,
   late |-> << "Wait, let me find my glasses. One minute please.",
               "My grandson is not home. Can you call back in 10 minutes?",
               "What is your name and company? I want to verify this.",
               "I need to write this down. Please speak slowly.",
               "Can you send me a letter instead? I don't trust phone calls." >>]

\* ------------------------------------------------------------------------
\* State
\* ------------------------------------------------------------------------
VARIABLES
  now,              \* datetime.now(), in seconds since startup
  sessions,         \* the OrderedDict: a sequence of [sid, oid], oldest first
  heap,             \* the SessionState objects, by object identity
  next_oid,         \* identity of the next SessionState() constructed
  inflight,         \* requests suspended in "await request.json()"
  tasks,            \* the send_callback tasks created, in creation order
  metrics,          \* the metrics dict
  failed_callbacks, \* the failed_callbacks list
  cleanup_wake,     \* when session_cleanup_task's sleep ends
  accepted,         \* per object, the messages handled: text, reply, extraction,
                    \* and the rank of the message among all messages handled
  handled,          \* how many messages the handler has accepted so far
  ev,               \* the operation that produced this state, with its inputs
  budget            \* requests the clients will still send

vars == << now, sessions, heap, next_oid, inflight, tasks, metrics,
           failed_callbacks, cleanup_wake, accepted, handled, ev, budget >>

\* A bug: a session starts with callback_sent set
SessionStateKeepsFlag(t) ==
  [ count |-> 0,
    intel |-> [upi |-> << >>, accounts |-> << >>, urls |-> << >>],
    history |-> << >>,
    scam_score |-> 0,
    callback_sent |-> TRUE,
    created_at |-> t,
    last_accessed |-> t,
    last_response_category |-> "None",
    keyword_counts |-> << >> ]

\* class SessionState, as constructed at time t
SessionState(t) ==
  [ count |-> 0,
    intel |-> [upi |-> << >>, accounts |-> << >>, urls |-> << >>],
    history |-> << >>,
    scam_score |-> 0,
    callback_sent |-> FALSE,
    created_at |-> t,
    last_accessed |-> t,
    last_response_category |-> "None",
    keyword_counts |-> << >> ]

\* session_id in sessions
HasSession(store, sid) == \E i \in 1..Len(store) : store[i].sid = sid

IndexOf(store, sid) == CHOOSE i \in 1..Len(store) : store[i].sid = sid

\* sessions[session_id], as an object identity
OidOf(store, sid) == store[IndexOf(store, sid)].oid

Oids(store) == {store[i].oid : i \in 1..Len(store)}

Sids(store) == {store[i].sid : i \in 1..Len(store)}

\* the sequence without its i-th element
RemoveAt(seq, i) == SubSeq(seq, 1, i - 1) \o SubSeq(seq, i + 1, Len(seq))

\* the objects something still refers to: the store and the running tasks
Live(store, ts) ==
  Oids(store) \cup {ts[i].oid : i \in {j \in 1..Len(ts) : ts[j].pc # "done"}}

Restrict(f, S) == [x \in (DOMAIN f) \cap S |-> f[x]]

\* ------------------------------------------------------------------------
\* extract_intelligence (src/main.py:274-322)
\* ------------------------------------------------------------------------
\* keywords_found: keyword -> count, for the keywords that occur
KeywordsFound(message_lower) ==
  LET hit == {i \in 1..Len(SCAM_KEYWORDS) :
                StrCount(message_lower, SCAM_KEYWORDS[i]) > 0}
  IN [kw \in {SCAM_KEYWORDS[i] : i \in hit} |-> StrCount(message_lower, kw)]

RECURSIVE SumUpTo(_, _)
SumUpTo(counts, n) ==
  IF n = 0 THEN 0
  ELSE SumUpTo(counts, n - 1)
       + (IF SCAM_KEYWORDS[n] \in DOMAIN counts THEN counts[SCAM_KEYWORDS[n]] ELSE 0)

\* sum(d.values()) of a keyword dict
SumValues(counts) == SumUpTo(counts, Len(SCAM_KEYWORDS))

\* A bug: session.keyword_counts = keywords_found
AddCountsReset(counts, found) == found

\* session.keyword_counts[keyword] = session.keyword_counts.get(keyword, 0) + count
AddCounts(counts, found) ==
  [kw \in (DOMAIN counts) \cup (DOMAIN found) |->
     (IF kw \in DOMAIN counts THEN counts[kw] ELSE 0)
     + (IF kw \in DOMAIN found THEN found[kw] ELSE 0)]

EmptyIntel ==
  [upi |-> << >>, accounts |-> << >>, urls |-> << >>, keywords_found |-> << >>]

\* The texts of the model
Texts ==
  { TextHi, TextShortKw, TextPlain, TextKw, TextWeighted, TextIntelNoKw,
    TextIntel, TextDup, TextUpper, TextOneCharUpi }

\* What the scans of extract_intelligence find in a text: the keyword
\* counts (src/main.py:290-299) and the findall() results (src/main.py:308-320)
Scan(message) ==
  [ keywords_found |-> KeywordsFound(Lower(message)),
    upi |-> FindAll("upi", message),
    accounts |-> FindAll("accounts", message),
    urls |-> FindAll("urls", message) ]

\* Scan of each text of the model, computed once
ScanOf == [t \in Texts |-> Scan(t)]

\* A bug: no early exit for short messages
ExtractedNoEarlyExit(message, keyword_counts, scan) ==
  [ intel |->
      IF SumValues(scan.keywords_found) > 0
      THEN [ upi |-> scan.upi, accounts |-> scan.accounts, urls |-> scan.urls,
             keywords_found |-> scan.keywords_found ]
      ELSE [ upi |-> << >>, accounts |-> << >>, urls |-> << >>,
             keywords_found |-> scan.keywords_found ],
    keyword_counts |-> AddCounts(keyword_counts, scan.keywords_found) ]

\* A bug: the patterns run when the session's cumulative score is > 0
ExtractedOnCumulativeScore(message, keyword_counts, scan) ==
  IF Len(message) < MIN_MESSAGE_LENGTH
  THEN [intel |-> EmptyIntel, keyword_counts |-> keyword_counts]
  ELSE [ intel |->
           IF SumValues(AddCounts(keyword_counts, scan.keywords_found)) > 0
           THEN [ upi |-> scan.upi, accounts |-> scan.accounts, urls |-> scan.urls,
                  keywords_found |-> scan.keywords_found ]
           ELSE [ upi |-> << >>, accounts |-> << >>, urls |-> << >>,
                  keywords_found |-> scan.keywords_found ],
         keyword_counts |-> AddCounts(keyword_counts, scan.keywords_found) ]

\* extract_intelligence, given what the scans find in the message
Extracted(message, keyword_counts, scan) ==
  IF Len(message) < MIN_MESSAGE_LENGTH
  THEN [intel |-> EmptyIntel, keyword_counts |-> keyword_counts]
  ELSE [ intel |->
           IF SumValues(scan.keywords_found) > 0
           THEN [ upi |-> scan.upi, accounts |-> scan.accounts, urls |-> scan.urls,
                  keywords_found |-> scan.keywords_found ]
           ELSE [ upi |-> << >>, accounts |-> << >>, urls |-> << >>,
                  keywords_found |-> scan.keywords_found ],
         keyword_counts |-> AddCounts(keyword_counts, scan.keywords_found) ]

\* The value returned (intel) and session.keyword_counts after the call.
ExtractIntelligence(message, keyword_counts) ==
  Extracted(message, keyword_counts, ScanOf[message])

\* ------------------------------------------------------------------------
\* generate_response (src/main.py:327-355); k is the draw of random.choice
\* ------------------------------------------------------------------------
Category(count) ==
  IF count <= 5 THEN "early"
  ELSE IF count <= 10 THEN "middle"
  ELSE "late"

GenerateResponse(count, k) == RESPONSES[Category(count)][k]

\* ------------------------------------------------------------------------
\* enforce_session_limit (src/main.py:447-456)
\* ------------------------------------------------------------------------
\* A bug: while len(sessions) > MAX_SESSIONS + 1
RECURSIVE EnforceSessionLimitOffByOne(_)
EnforceSessionLimitOffByOne(store) ==
  IF Len(store) > MAX_SESSIONS + 1
  THEN EnforceSessionLimitOffByOne(Tail(store))
  ELSE store

RECURSIVE EnforceSessionLimit(_)
EnforceSessionLimit(store) ==
  IF Len(store) > MAX_SESSIONS
  THEN EnforceSessionLimit(Tail(store))
  ELSE store

\* A bug: move_to_end left out
NoMoveToEnd(store, sid) == store

\* sessions.move_to_end(session_id)
MoveToEnd(store, sid) ==
  LET i == IndexOf(store, sid)
  IN RemoveAt(store, i) \o << store[i] >>

\* A bug: session.history[:MAX_CONVERSATION_HISTORY]
AppendHistoryKeepFirst(history, entry) ==
  LET h == Append(history, entry)
  IN IF Len(h) > MAX_CONVERSATION_HISTORY
     THEN SubSeq(h, 1, MAX_CONVERSATION_HISTORY)
     ELSE h

\* session.history after the append and the trim (src/main.py:520-523)
AppendHistory(history, entry) ==
  LET h == Append(history, entry)
  IN IF Len(h) > MAX_CONVERSATION_HISTORY
     THEN SubSeq(h, Len(h) - MAX_CONVERSATION_HISTORY + 1, Len(h))
     ELSE h

\* has_sensitive_data (src/main.py:527)
HasSensitiveData(intel) ==
  intel.upi # << >> \/ intel.accounts # << >> \/ intel.urls # << >>

\* A bug: has_sensitive_data taken from the session's buckets
ShouldCallbackFromBuckets(session, intel) ==
  LET total_keyword_score == SumValues(session.keyword_counts)
      scam_confirmed == total_keyword_score >= SCAM_SCORE_THRESHOLD
                        /\ HasSensitiveData(session.intel)
  IN (session.count >= FALLBACK_INTERACTIONS \/ scam_confirmed)
     /\ ~session.callback_sent

\* A bug: session.count > 15
ShouldCallbackAfterFifteen(session, intel) ==
  LET total_keyword_score == SumValues(session.keyword_counts)
      scam_confirmed == total_keyword_score >= SCAM_SCORE_THRESHOLD
                        /\ HasSensitiveData(intel)
  IN (session.count > FALLBACK_INTERACTIONS \/ scam_confirmed)
     /\ ~session.callback_sent

\* should_callback (src/main.py:526-530), on the session after the updates
ShouldCallback(session, intel) ==
  LET total_keyword_score == SumValues(session.keyword_counts)
      scam_confirmed == total_keyword_score >= SCAM_SCORE_THRESHOLD
                        /\ HasSensitiveData(intel)
  IN (session.count >= FALLBACK_INTERACTIONS \/ scam_confirmed)
     /\ ~session.callback_sent

\* The session object after the handler's updates of it, before the trigger
\* (src/main.py:506-523).
\* ex is what extract_intelligence did, reply what generate_response drew.
UpdateSession(session, t, text, ex, reply) ==
  [ session EXCEPT
      !.last_accessed = t,
      !.count = @ + 1,
      !.keyword_counts = ex.keyword_counts,
      !.intel = [ upi |-> @.upi \o ex.intel.upi,
                  accounts |-> @.accounts \o ex.intel.accounts,
                  urls |-> @.urls \o ex.intel.urls ],
      !.last_response_category = Category(session.count + 1),
      !.history = AppendHistory(@, [scammer |-> text, agent |-> reply]) ]

\* A bug: the flag is not set
ForgetCallbackSent(session) == session

\* session.callback_sent = True (src/main.py:535)
MarkCallbackSent(session) == [session EXCEPT !.callback_sent = TRUE]

\* asyncio.create_task(send_callback(session_id, session)): the task holds
\* the session object itself, not a copy
NewTask(sid, oid) ==
  [ sid |-> sid, oid |-> oid, pc |-> "scheduled", attempt |-> 0,
    payload |-> "None", wake |-> 0, result |-> "None", posts |-> 0 ]

\* ------------------------------------------------------------------------
\* Initial state: the module's globals after import and startup_event
\* (src/main.py:67-116, 188-203)
\* ------------------------------------------------------------------------
InitGlobals ==
  /\ now = 0
  /\ inflight = EmptyBag
  /\ tasks = << >>
  /\ metrics = [ active_sessions |-> 0,
                 total_callbacks_sent |-> 0,
                 total_callbacks_failed |-> 0,
                 circuit_breaker_active |-> FALSE,
                 circuit_breaker_until |-> "None" ]
  /\ failed_callbacks = << >>
  /\ cleanup_wake = CLEANUP_INTERVAL_SECONDS
  /\ ev = [op |-> "startup"]

\* sessions = OrderedDict() (src/main.py:116)
InitEmptyStore ==
  /\ sessions = << >>
  /\ heap = << >>
  /\ next_oid = 1
  /\ accepted = << >>
  /\ handled = 0

\* ------------------------------------------------------------------------
\* honeypot (src/main.py:461-548)
\* ------------------------------------------------------------------------
\* A request with the right API key and a payload that validates arrives and
\* the handler suspends in "await request.json()" (src/main.py:467-477).  At
\* most cap handlers are suspended there at a time.
Receive(sid, text, cap) ==
  /\ budget > 0
  /\ BagCardinality(inflight) < cap
  /\ inflight' = inflight (+) SetToBag({[sid |-> sid, text |-> text]})
  /\ budget' = budget - 1
  /\ ev' = [op |-> "receive", sid |-> sid, text |-> text]
  /\ UNCHANGED << now, sessions, heap, next_oid, tasks, metrics,
                  failed_callbacks, cleanup_wake, accepted, handled >>

\* The rest of the handler once the session object is in hand
\* (src/main.py:506-541): store is the OrderedDict after lines 494-502,
\* before the object as it was, ex what extract_intelligence did and reply
\* what generate_response drew.
Respond(session_id, scam_text, created, store, oid, before, ex, reply) ==
  LET session == UpdateSession(before, now, scam_text, ex, reply)
      should_callback == ShouldCallback(session, ex.intel)
      tasks1 == IF should_callback
                THEN Append(tasks, NewTask(session_id, oid))
                ELSE tasks
      live == Live(store, tasks1)
      entry == [ text |-> scam_text, reply |-> reply, intel |-> ex.intel,
                 rank |-> handled + 1 ]
  IN /\ sessions' = store
     /\ heap' = Restrict([o \in (DOMAIN heap) \cup {oid} |->
                            IF o # oid THEN heap[o]
                            ELSE IF should_callback THEN MarkCallbackSent(session)
                            ELSE session],
                         live)
     /\ accepted' = Restrict([o \in (DOMAIN accepted) \cup {oid} |->
                                IF o # oid THEN accepted[o]
                                ELSE IF created THEN << entry >>
                                ELSE Append(accepted[o], entry)],
                             live)
     /\ tasks' = tasks1
     /\ next_oid' = IF created THEN next_oid + 1 ELSE next_oid
     /\ handled' = handled + 1
     /\ ev' = [ op |-> "handle", sid |-> session_id, oid |-> oid,
                text |-> scam_text, intel |-> ex.intel,
                response |-> [status |-> 200, reply |-> reply],
                created |-> created,
                evicted |-> Sids(sessions) \ Sids(store) ]

\* The handler with the session object looked up (src/main.py:503-518)
WithSession(session_id, scam_text, k, created, store, before) ==
  Respond(session_id, scam_text, created, store, OidOf(store, session_id), before,
          ExtractIntelligence(scam_text, before.keyword_counts),
          GenerateResponse(before.count + 1, k))

\* The OrderedDict after "if session_id not in sessions: ..." and
\* move_to_end (src/main.py:494-502)
GetOrCreate(store, session_id, oid) ==
  MoveToEnd(IF HasSession(store, session_id)
            THEN store
            ELSE EnforceSessionLimit(Append(store, [sid |-> session_id, oid |-> oid])),
            session_id)

\* The handler resumes with the payload and runs to its return
\* (src/main.py:480-541).  "await extract_intelligence(...)" awaits a
\* coroutine that never suspends, so nothing else runs in between.
\* k is the draw of random.choice in generate_response.
Handle(req, k) ==
  /\ BagIn(req, inflight)
  /\ WithSession(req.sid, req.text, k,
                 ~HasSession(sessions, req.sid),
                 GetOrCreate(sessions, req.sid, next_oid),
                 IF HasSession(sessions, req.sid)
                 THEN heap[OidOf(sessions, req.sid)]
                 ELSE SessionState(now))
  /\ inflight' = inflight (-) SetToBag({req})
  /\ UNCHANGED << now, metrics, failed_callbacks, cleanup_wake, budget >>

\* ------------------------------------------------------------------------
\* session_cleanup_task (src/main.py:216-241): one pass of the loop, from
\* the end of the sleep to the next sleep
\* ------------------------------------------------------------------------
\* A bug: timedelta(hours=SESSION_TTL_MINUTES)
ExpiredAfterHours(session, t) ==
  session.last_accessed
    < t - SESSION_TTL_MINUTES * SECONDS_PER_MINUTE * SECONDS_PER_MINUTE

\* A bug: state.last_accessed <= ttl_threshold
ExpiredAtThreshold(session, t) ==
  session.last_accessed <= t - SESSION_TTL_MINUTES * SECONDS_PER_MINUTE

\* state.last_accessed < ttl_threshold (src/main.py:225-230)
Expired(session, t) ==
  session.last_accessed < t - SESSION_TTL_MINUTES * SECONDS_PER_MINUTE

\* the store without the sessions whose object is in gone, order kept
Without(store, gone) == SelectSeq(store, LAMBDA e : e.oid \notin gone)

\* expired_sessions (src/main.py:228-231), as objects
ExpiredSessions(store, t) == {o \in Oids(store) : Expired(heap[o], t)}

Swept(store) ==
  /\ sessions' = store
  /\ heap' = Restrict(heap, Live(store, tasks))
  /\ accepted' = Restrict(accepted, Live(store, tasks))
  /\ metrics' = [metrics EXCEPT !.active_sessions = Len(store)]
  /\ ev' = [op |-> "cleanup", removed |-> Sids(sessions) \ Sids(store)]

SessionCleanup ==
  /\ now >= cleanup_wake
  /\ Swept(Without(sessions, ExpiredSessions(sessions, now)))
  /\ cleanup_wake' = now + CLEANUP_INTERVAL_SECONDS
  /\ UNCHANGED << now, next_oid, inflight, tasks, failed_callbacks, handled,
                  budget >>

\* Time passes: d seconds, up to the horizon maxTime of the specification.
Tick(d, maxTime) ==
  /\ now + d <= maxTime
  /\ now' = now + d
  /\ ev' = [op |-> "tick"]
  /\ UNCHANGED << sessions, heap, next_oid, inflight, tasks, metrics,
                  failed_callbacks, cleanup_wake, accepted, handled, budget >>

\* ------------------------------------------------------------------------
\* honeypot: the requests that do not reach the session store, and faults
\* ------------------------------------------------------------------------
\* the replies of the three fixed responses (src/main.py:470, 483, 547)
\* (the apostrophe of the fallback reply is U+2019 in the source)
UNAUTHORIZED == "Unauthorized"
GREETING == "Hello? Who is this?"
FALLBACK == "I'm not sure what you mean. Can you explain?"

\* What "await request.json()" can give, but for a payload that validates
\* (src/main.py:474-488):
\*   "unreadable"     no body or not JSON: request.json() raises, payload = None
\*   "falsy"          null, false, 0, "", [] or {}
\*   "scalar"         a number other than 0, or true
\*   "no_message"     an object, array or string without "message" in it
\*   "not_a_mapping"  a string or array with "message" in it
\*   "invalid"        an object with a "message" key that MessageRequest rejects
PayloadKinds ==
  {"unreadable", "falsy", "scalar", "no_message", "not_a_mapping", "invalid"}

\* The response to a request whose payload is of that kind
\* (src/main.py:466-488, 543-548).  For a number or true,
\* '"message" not in payload' raises TypeError at line 480, outside the try
\* block: the exception leaves the handler and the server answers 500.
\* MessageRequest(**payload) raises inside the try block: the fallback.
Endpoint(key_ok, kind) ==
  IF ~key_ok THEN [status |-> 401, reply |-> UNAUTHORIZED]
  ELSE IF kind \in {"unreadable", "falsy"} THEN [status |-> 200, reply |-> GREETING]
  ELSE IF kind = "scalar" THEN [status |-> 500, reply |-> ""]
  ELSE IF kind = "no_message" THEN [status |-> 200, reply |-> GREETING]
  ELSE [status |-> 200, reply |-> FALLBACK]

\* A request that is answered without touching the store.  With a wrong key
\* the handler returns before it reads the body.
Answer(key_ok, kind) ==
  /\ budget > 0
  /\ budget' = budget - 1
  /\ ev' = [ op |-> "answer", key_ok |-> key_ok, kind |-> kind,
             response |-> Endpoint(key_ok, kind) ]
  /\ UNCHANGED << now, sessions, heap, next_oid, inflight, tasks, metrics,
                  failed_callbacks, cleanup_wake, accepted, handled >>

\* Where an exception can be raised while a validated message is handled,
\* by what has run before it (src/main.py:494-518):
\*   "construct"  in SessionState(), before the store is written (495)
\*   "extract"    in extract_intelligence before the keyword counts are
\*                written (290-299); lines 494-507 have run
\*   "patterns"   in the pattern scans (305-320); line 303 has run too
\*   "respond"    in generate_response (518); lines 513-515 have run too
FaultPoints == {"construct", "extract", "patterns", "respond"}

\* The session object when the exception is raised
FaultedSession(before, t, ex, point) ==
  LET counted == [before EXCEPT !.last_accessed = t, !.count = @ + 1]
      scored == [counted EXCEPT !.keyword_counts = ex.keyword_counts]
  IN CASE point = "extract" -> counted
       [] point = "patterns" -> scored
       [] point = "respond" ->
            [scored EXCEPT !.intel = [ upi |-> @.upi \o ex.intel.upi,
                                       accounts |-> @.accounts \o ex.intel.accounts,
                                       urls |-> @.urls \o ex.intel.urls ]]

\* The handler's except branch (src/main.py:543-548): nothing is undone
Faulted(session_id, point, created, store, oid, session) ==
  /\ sessions' = store
  /\ heap' = Restrict([o \in (DOMAIN heap) \cup {oid} |->
                         IF o # oid THEN heap[o] ELSE session],
                      Live(store, tasks))
  /\ accepted' = Restrict([o \in (DOMAIN accepted) \cup {oid} |->
                             IF o \in DOMAIN accepted THEN accepted[o] ELSE << >>],
                          Live(store, tasks))
  /\ next_oid' = IF created THEN next_oid + 1 ELSE next_oid
  /\ ev' = [ op |-> "fault", sid |-> session_id, oid |-> oid, point |-> point,
             response |-> [status |-> 200, reply |-> FALLBACK],
             created |-> created,
             evicted |-> Sids(sessions) \ Sids(store) ]

FaultAfterCreate(session_id, scam_text, point, created, store, before) ==
  Faulted(session_id, point, created, store, OidOf(store, session_id),
          FaultedSession(before, now,
                         ExtractIntelligence(scam_text, before.keyword_counts),
                         point))

\* The handler resumes with a payload that validates and an exception is
\* raised at point; "except Exception" returns the fallback reply.
HandleFault(req, point) ==
  /\ BagIn(req, inflight)
  /\ IF point = "construct" /\ ~HasSession(sessions, req.sid)
     THEN /\ ev' = [ op |-> "fault", sid |-> req.sid, oid |-> 0, point |-> point,
                     response |-> [status |-> 200, reply |-> FALLBACK],
                     created |-> FALSE, evicted |-> {} ]
          /\ UNCHANGED << sessions, heap, accepted, next_oid >>
     ELSE /\ point # "construct"
          /\ FaultAfterCreate(req.sid, req.text, point,
                              ~HasSession(sessions, req.sid),
                              GetOrCreate(sessions, req.sid, next_oid),
                              IF HasSession(sessions, req.sid)
                              THEN heap[OidOf(sessions, req.sid)]
                              ELSE SessionState(now))
  /\ inflight' = inflight (-) SetToBag({req})
  /\ UNCHANGED << now, tasks, metrics, failed_callbacks, cleanup_wake, handled,
                  budget >>

\* check_rate_limit (src/main.py:246-269) on a rate_limit_store: whether the
\* request is allowed, and the store afterwards.  honeypot does not call it.
CheckRateLimit(rate_limit_store, session_id, t) ==
  LET old == IF session_id \in DOMAIN rate_limit_store
             THEN rate_limit_store[session_id] ELSE << >>
      kept == SelectSeq(old, LAMBDA ts : t - ts < RATE_LIMIT_WINDOW)
      with(l) == [s \in (DOMAIN rate_limit_store) \cup {session_id} |->
                    IF s = session_id THEN l ELSE rate_limit_store[s]]
  IN IF Len(kept) >= RATE_LIMIT_REQUESTS
     THEN [allowed |-> FALSE, store |-> with(kept)]
     ELSE [allowed |-> TRUE, store |-> with(Append(kept, t))]


\* ------------------------------------------------------------------------
\* send_callback (src/main.py:360-442)
\* ------------------------------------------------------------------------
\* set(xs)
SetOf(xs) == {xs[i] : i \in 1..Len(xs)}

\* list(set(xs)): the elements once each; the order is the set's iteration
\* order, which the program does not determine
ListsOfSet(S) ==
  {l \in [1..Cardinality(S) -> S] : {l[i] : i \in 1..Cardinality(S)} = S}

\* A bug: the buckets are sent as they are, not deduplicated
PayloadRaw(session_id, session_data, upi, accounts, urls) ==
  [ sessionId |-> session_id,
    scamDetected |-> TRUE,
    totalMessagesExchanged |-> session_data.count,
    extractedIntelligence |->
      [ bankAccounts |-> session_data.intel.accounts,
        upiIds |-> session_data.intel.upi,
        phishingLinks |-> session_data.intel.urls,
        phoneNumbers |-> << >>,
        suspiciousKeywords |-> DOMAIN session_data.keyword_counts ],
    agentNotes |-> "Used urgency and account-block threats to extract payment info" ]

\* The payload built from the session object (src/main.py:383-405), the
\* three deduplicated lists being upi, accounts and urls.  suspiciousKeywords
\* is modelled as the set of the dict's keys.
Payload(session_id, session_data, upi, accounts, urls) ==
  [ sessionId |-> session_id,
    scamDetected |-> TRUE,
    totalMessagesExchanged |-> session_data.count,
    extractedIntelligence |->
      [ bankAccounts |-> accounts,
        upiIds |-> upi,
        phishingLinks |-> urls,
        phoneNumbers |-> << >>,
        suspiciousKeywords |-> DOMAIN session_data.keyword_counts ],
    agentNotes |-> "Used urgency and account-block threats to extract payment info" ]

\* A bug: a skipped dispatch is counted as a failure
BreakerGateCountsSkip(m, t) ==
  IF m.circuit_breaker_active
  THEN IF t < m.circuit_breaker_until
       THEN [ skip |-> TRUE,
              metrics |-> [m EXCEPT !.total_callbacks_failed = @ + 1] ]
       ELSE [ skip |-> FALSE,
              metrics |-> [m EXCEPT !.circuit_breaker_active = FALSE,
                                    !.total_callbacks_failed = 0] ]
  ELSE [skip |-> FALSE, metrics |-> m]

\* A bug: the breaker is closed and the counter is left as it is
BreakerGateKeepsCount(m, t) ==
  IF m.circuit_breaker_active
  THEN IF t < m.circuit_breaker_until
       THEN [skip |-> TRUE, metrics |-> m]
       ELSE [ skip |-> FALSE,
              metrics |-> [m EXCEPT !.circuit_breaker_active = FALSE] ]
  ELSE [skip |-> FALSE, metrics |-> m]

\* The circuit breaker gate (src/main.py:372-381): "skip", or the metrics
\* the dispatch proceeds with.
BreakerGate(m, t) ==
  IF m.circuit_breaker_active
  THEN IF t < m.circuit_breaker_until
       THEN [skip |-> TRUE, metrics |-> m]
       ELSE [ skip |-> FALSE,
              metrics |-> [m EXCEPT !.circuit_breaker_active = FALSE,
                                    !.total_callbacks_failed = 0] ]
  ELSE [skip |-> FALSE, metrics |-> m]

\* tasks with task i finished: the objects only it referred to are dropped
Finish(i, result) ==
  LET ts == [tasks EXCEPT ![i].pc = "done", ![i].result = result]
      live == Live(sessions, ts)
  IN /\ tasks' = ts
     /\ heap' = Restrict(heap, live)
     /\ accepted' = Restrict(accepted, live)

\* The task passed the gate: the payload is built from the session object
\* and the first post is made (src/main.py:383-414).
BuildAndPost(i, session_data) ==
  \E upi \in ListsOfSet(SetOf(session_data.intel.upi)),
     accounts \in ListsOfSet(SetOf(session_data.intel.accounts)),
     urls \in ListsOfSet(SetOf(session_data.intel.urls)) :
       tasks' = [tasks EXCEPT
                   ![i].pc = "posting",
                   ![i].posts = 1,
                   ![i].payload = Payload(tasks[i].sid, session_data,
                                          upi, accounts, urls)]

\* A bug: a dispatch that finds the breaker open stays scheduled
GatedWaits(i, gate) ==
  /\ metrics' = gate.metrics
  /\ IF gate.skip
     THEN UNCHANGED << tasks, heap, accepted >>
     ELSE BuildAndPost(i, heap[tasks[i].oid]) /\ UNCHANGED << heap, accepted >>

Gated(i, gate) ==
  /\ metrics' = gate.metrics
  /\ IF gate.skip
     THEN Finish(i, FALSE)
     ELSE BuildAndPost(i, heap[tasks[i].oid]) /\ UNCHANGED << heap, accepted >>

\* The task starts running: the gate, the payload, and the first post
\* (src/main.py:372-414, up to the first await).
DispatchStart(i) ==
  /\ i \in 1..Len(tasks)
  /\ tasks[i].pc = "scheduled"
  /\ Gated(i, BreakerGate(metrics, now))
  /\ ev' = [op |-> "dispatch_start", task |-> i]
  /\ UNCHANGED << now, sessions, next_oid, inflight, failed_callbacks,
                  cleanup_wake, handled, budget >>

\* A bug: total_callbacks_failed > CIRCUIT_BREAKER_THRESHOLD
AllRetriesFailedOpensLate(i) ==
  LET failed == metrics.total_callbacks_failed + 1
  IN /\ metrics' =
          IF failed > CIRCUIT_BREAKER_THRESHOLD
          THEN [metrics EXCEPT !.total_callbacks_failed = failed,
                               !.circuit_breaker_active = TRUE,
                               !.circuit_breaker_until = now + CIRCUIT_BREAKER_TIMEOUT]
          ELSE [metrics EXCEPT !.total_callbacks_failed = failed]
     /\ failed_callbacks' = Append(failed_callbacks,
                                   [ session_id |-> tasks[i].sid,
                                     payload |-> tasks[i].payload,
                                     timestamp |-> now ])
     /\ Finish(i, FALSE)

\* A bug: the record is put at the head of the queue
AllRetriesFailedQueuesFirst(i) ==
  LET failed == metrics.total_callbacks_failed + 1
  IN /\ metrics' =
          IF failed >= CIRCUIT_BREAKER_THRESHOLD
          THEN [metrics EXCEPT !.total_callbacks_failed = failed,
                               !.circuit_breaker_active = TRUE,
                               !.circuit_breaker_until = now + CIRCUIT_BREAKER_TIMEOUT]
          ELSE [metrics EXCEPT !.total_callbacks_failed = failed]
     /\ failed_callbacks' = << [ session_id |-> tasks[i].sid,
                                 payload |-> tasks[i].payload,
                                 timestamp |-> now ] >> \o failed_callbacks
     /\ Finish(i, FALSE)

\* A bug: an open breaker keeps its deadline
AllRetriesFailedKeepsDeadline(i) ==
  LET failed == metrics.total_callbacks_failed + 1
  IN /\ metrics' =
          IF failed >= CIRCUIT_BREAKER_THRESHOLD /\ ~metrics.circuit_breaker_active
          THEN [metrics EXCEPT !.total_callbacks_failed = failed,
                               !.circuit_breaker_active = TRUE,
                               !.circuit_breaker_until = now + CIRCUIT_BREAKER_TIMEOUT]
          ELSE [metrics EXCEPT !.total_callbacks_failed = failed]
     /\ failed_callbacks' = Append(failed_callbacks,
                                   [ session_id |-> tasks[i].sid,
                                     payload |-> tasks[i].payload,
                                     timestamp |-> now ])
     /\ Finish(i, FALSE)

\* All retries failed (src/main.py:430-442).
AllRetriesFailed(i) ==
  LET failed == metrics.total_callbacks_failed + 1
  IN /\ metrics' =
          IF failed >= CIRCUIT_BREAKER_THRESHOLD
          THEN [metrics EXCEPT !.total_callbacks_failed = failed,
                               !.circuit_breaker_active = TRUE,
                               !.circuit_breaker_until = now + CIRCUIT_BREAKER_TIMEOUT]
          ELSE [metrics EXCEPT !.total_callbacks_failed = failed]
     /\ failed_callbacks' = Append(failed_callbacks,
                                   [ session_id |-> tasks[i].sid,
                                     payload |-> tasks[i].payload,
                                     timestamp |-> now ])
     /\ Finish(i, FALSE)

\* NextAttempt: the loop goes round and posts again
NextAttempt(i) ==
  /\ tasks' = [tasks EXCEPT ![i].attempt = @ + 1, ![i].pc = "posting",
                            ![i].posts = @ + 1]
  /\ UNCHANGED << heap, accepted, metrics, failed_callbacks >>

\* A bug: range(MAX_CALLBACK_RETRIES + 1)
PostReturnsOnceMore(i, outcome) ==
  /\ i \in 1..Len(tasks)
  /\ tasks[i].pc = "posting"
  /\ CASE outcome = "200" ->
            /\ metrics' = [metrics EXCEPT !.total_callbacks_sent = @ + 1]
            /\ Finish(i, TRUE)
            /\ UNCHANGED failed_callbacks
       [] outcome = "other" ->
            IF tasks[i].attempt + 1 < MAX_CALLBACK_RETRIES + 1
            THEN NextAttempt(i)
            ELSE AllRetriesFailed(i)
       [] outcome = "error" ->
            IF tasks[i].attempt < MAX_CALLBACK_RETRIES
            THEN /\ tasks' = [tasks EXCEPT ![i].pc = "sleeping",
                                           ![i].wake = now + 2 ^ tasks[i].attempt]
                 /\ UNCHANGED << heap, accepted, metrics, failed_callbacks >>
            ELSE AllRetriesFailed(i)
  /\ ev' = [op |-> "post_returns", task |-> i, outcome |-> outcome]
  /\ UNCHANGED << now, sessions, next_oid, inflight, cleanup_wake, handled, budget >>

\* A bug: a success resets the failure counter
PostReturnsResetsFailures(i, outcome) ==
  /\ i \in 1..Len(tasks)
  /\ tasks[i].pc = "posting"
  /\ CASE outcome = "200" ->
            /\ metrics' = [metrics EXCEPT !.total_callbacks_sent = @ + 1,
                                          !.total_callbacks_failed = 0]
            /\ Finish(i, TRUE)
            /\ UNCHANGED failed_callbacks
       [] outcome = "other" ->
            IF tasks[i].attempt + 1 < MAX_CALLBACK_RETRIES
            THEN NextAttempt(i)
            ELSE AllRetriesFailed(i)
       [] outcome = "error" ->
            IF tasks[i].attempt < MAX_CALLBACK_RETRIES - 1
            THEN /\ tasks' = [tasks EXCEPT ![i].pc = "sleeping",
                                           ![i].wake = now + 2 ^ tasks[i].attempt]
                 /\ UNCHANGED << heap, accepted, metrics, failed_callbacks >>
            ELSE AllRetriesFailed(i)
  /\ ev' = [op |-> "post_returns", task |-> i, outcome |-> outcome]
  /\ UNCHANGED << now, sessions, next_oid, inflight, cleanup_wake, handled, budget >>

\* "await callback_client.post(...)" returns or raises (src/main.py:410-428):
\* outcome is "200", "other" (another status) or "error" (an exception, the
\* 10 second timeout included).
PostReturns(i, outcome) ==
  /\ i \in 1..Len(tasks)
  /\ tasks[i].pc = "posting"
  /\ CASE outcome = "200" ->
            /\ metrics' = [metrics EXCEPT !.total_callbacks_sent = @ + 1]
            /\ Finish(i, TRUE)
            /\ UNCHANGED failed_callbacks
       [] outcome = "other" ->
            IF tasks[i].attempt + 1 < MAX_CALLBACK_RETRIES
            THEN NextAttempt(i)
            ELSE AllRetriesFailed(i)
       [] outcome = "error" ->
            IF tasks[i].attempt < MAX_CALLBACK_RETRIES - 1
            THEN /\ tasks' = [tasks EXCEPT ![i].pc = "sleeping",
                                           ![i].wake = now + 2 ^ tasks[i].attempt]
                 /\ UNCHANGED << heap, accepted, metrics, failed_callbacks >>
            ELSE AllRetriesFailed(i)
  /\ ev' = [op |-> "post_returns", task |-> i, outcome |-> outcome]
  /\ UNCHANGED << now, sessions, next_oid, inflight, cleanup_wake, handled, budget >>

\* "await asyncio.sleep(2 ** attempt)" ends (src/main.py:427-428).
BackoffEnds(i) ==
  /\ i \in 1..Len(tasks)
  /\ tasks[i].pc = "sleeping"
  /\ now >= tasks[i].wake
  /\ NextAttempt(i)
  /\ ev' = [op |-> "backoff_ends", task |-> i]
  /\ UNCHANGED << now, sessions, next_oid, inflight, cleanup_wake, handled, budget >>

\* ------------------------------------------------------------------------
\* States the handler leaves behind, used as initial states
\* ------------------------------------------------------------------------
\* the n-th message of a quiet conversation: no keyword, nothing to extract
QuietText(n) == IF n % 2 = 1 THEN TextHi ELSE TextPlain

QuietDraw(n) == (n % 5) + 1

\* The session object after the handler accepted the quiet messages 1..n at
\* time 0 (src/main.py:495, 506-523); the trigger does not fire on them.
RECURSIVE QuietSession(_)
QuietSession(n) ==
  IF n = 0 THEN SessionState(0)
  ELSE UpdateSession(QuietSession(n - 1), 0, QuietText(n),
                     ExtractIntelligence(QuietText(n), << >>),
                     GenerateResponse(n, QuietDraw(n)))

\* what was accepted in those n messages, the first having rank first
QuietLog(n, first) ==
  [ i \in 1..n |->
      [ text |-> QuietText(i),
        reply |-> GenerateResponse(i, QuietDraw(i)),
        intel |-> ExtractIntelligence(QuietText(i), << >>).intel,
        rank |-> first + i - 1 ] ]

\* One session, id 1, that has had n quiet messages.
InitQuiet(n) ==
  /\ sessions = << [sid |-> 1, oid |-> 1] >>
  /\ heap = (1 :> QuietSession(n))
  /\ accepted = (1 :> QuietLog(n, 1))
  /\ next_oid = 2
  /\ handled = n

\* n sessions, ids 1..n, created in that order by one message "Hi" each.
InitFilled(n) ==
  /\ sessions = [i \in 1..n |-> [sid |-> i, oid |-> i]]
  /\ heap = [o \in 1..n |-> QuietSession(1)]
  /\ accepted = [o \in 1..n |-> QuietLog(1, o)]
  /\ next_oid = n + 1
  /\ handled = n

\* The session object after the handler accepted "Send money to ..." as the
\* first message of a session at time 0: the score is 3 and the message has
\* matches, so the trigger fired (src/main.py:495, 506-535).
FiredSession ==
  MarkCallbackSent(UpdateSession(SessionState(0), 0, TextIntel,
                                 ExtractIntelligence(TextIntel, << >>),
                                 GenerateResponse(1, 1)))

FiredLog(rank) ==
  << [ text |-> TextIntel,
       reply |-> GenerateResponse(1, 1),
       intel |-> ExtractIntelligence(TextIntel, << >>).intel,
       rank |-> rank ] >>

\* The payload send_callback builds from such a session (src/main.py:383-405);
\* each bucket holds one match.
FiredPayload(sid) ==
  Payload(sid, FiredSession, FiredSession.intel.upi,
          FiredSession.intel.accounts, FiredSession.intel.urls)

\* The task of session sid after three posts that returned another status
\* than 200, one after the other without a sleep (src/main.py:408-442)
FailedTask(sid) ==
  [ sid |-> sid, oid |-> sid, pc |-> "done", attempt |-> MAX_CALLBACK_RETRIES - 1,
    payload |-> FiredPayload(sid), wake |-> 0, result |-> FALSE,
    posts |-> MAX_CALLBACK_RETRIES ]

\* f + n sessions, ids 1..f+n, each fired on its first message at time 0.
\* The dispatches of the first f failed at time 0, each counted
\* (src/main.py:430-440); those of the other n have not started.
Dispatched(f, n) ==
  /\ now = 0
  /\ inflight = EmptyBag
  /\ sessions = [i \in 1..(f + n) |-> [sid |-> i, oid |-> i]]
  /\ heap = [o \in 1..(f + n) |-> FiredSession]
  /\ accepted = [o \in 1..(f + n) |-> FiredLog(o)]
  /\ next_oid = f + n + 1
  /\ handled = f + n
  /\ tasks = [i \in 1..(f + n) |-> IF i <= f THEN FailedTask(i) ELSE NewTask(i, i)]
  /\ metrics = [ active_sessions |-> 0,
                 total_callbacks_sent |-> 0,
                 total_callbacks_failed |-> f,
                 circuit_breaker_active |-> (f >= CIRCUIT_BREAKER_THRESHOLD),
                 circuit_breaker_until |->
                   IF f >= CIRCUIT_BREAKER_THRESHOLD
                   THEN CIRCUIT_BREAKER_TIMEOUT ELSE "None" ]
  /\ failed_callbacks = [i \in 1..f |-> [ session_id |-> i,
                                          payload |-> FiredPayload(i),
                                          timestamp |-> 0 ]]
  /\ cleanup_wake = CLEANUP_INTERVAL_SECONDS
  /\ ev = [op |-> "startup"]

\* that state, with no request to come
InitDispatched(f, n) ==
  /\ Dispatched(f, n)
  /\ budget = 0

\* The task of session sid after its first post returned 200
\* (src/main.py:410-419)
DeliveredTask(sid) ==
  [ sid |-> sid, oid |-> sid, pc |-> "done", attempt |-> 0,
    payload |-> FiredPayload(sid), wake |-> 0, result |-> TRUE, posts |-> 1 ]

\* n sessions, ids 1..n, created in that order at time 0: session 1 fired
\* on its first message and its report was delivered, the others had one
\* message "Hi" each.
InitFilledAfterDelivery(n) ==
  /\ now = 0
  /\ inflight = EmptyBag
  /\ sessions = [i \in 1..n |-> [sid |-> i, oid |-> i]]
  /\ heap = [o \in 1..n |-> IF o = 1 THEN FiredSession ELSE QuietSession(1)]
  /\ accepted = [o \in 1..n |-> IF o = 1 THEN FiredLog(1) ELSE QuietLog(1, o)]
  /\ next_oid = n + 1
  /\ handled = n
  /\ tasks = << DeliveredTask(1) >>
  /\ metrics = [ active_sessions |-> 0,
                 total_callbacks_sent |-> 1,
                 total_callbacks_failed |-> 0,
                 circuit_breaker_active |-> FALSE,
                 circuit_breaker_until |-> "None" ]
  /\ failed_callbacks = << >>
  /\ cleanup_wake = CLEANUP_INTERVAL_SECONDS
  /\ ev = [op |-> "startup"]

\* ------------------------------------------------------------------------
\* Bounds of the specifications
\* ------------------------------------------------------------------------
\* Spec: requests sent, and the horizon of the clock
MaxRequests == 3
MaxTime == 1801
\* SpecLong: messages session 1 has had, and requests sent
LongQuiet == 13
LongRequests == 4
\* SpecHistory: messages session 1 has had, and requests sent
HistoryQuiet == 9
HistoryRequests == 3
\* SpecLru: sessions in the store, and requests sent
LruFilled == 499
LruRequests == 4
\* SpecTtl: requests sent, and the horizon of the clock
TtlRequests == 2
TtlMaxTime == 2403

\* SpecScore: requests sent
ScoreRequests == 3

\* SpecBreaker: dispatches that failed before, dispatches waiting, and the
\* horizon of the clock
BreakerFailed == 4
BreakerTasks == 2
BreakerMaxTime == 450

\* SpecReopen: dispatches that failed before, dispatches waiting, and the
\* horizon of the clock
ReopenFailed == 5
ReopenTasks == 4
ReopenMaxTime == 300

\* SpecDeliver: dispatches waiting
DeliverTasks == 2

\* SpecPatterns: requests sent
PatternRequests == 3

\* SpecEndpoint: requests sent
EndpointRequests == 3

\* SpecReap: sessions in the store, requests sent, and the horizon of the
\* clock
ReapSessions == 3
ReapRequests == 2
ReapMaxTime == 2403

\* SpecSkip: dispatches waiting, requests sent, and the horizon of the clock
SkipTasks == 1
SkipRequests == 3
SkipMaxTime == 300

\* SpecRemoval: sessions in the store, requests sent, and the horizon of
\* the clock
RemovalFilled == 499
RemovalRequests == 3
RemovalMaxTime == 1801

\* ------------------------------------------------------------------------
\* Specifications
\* ------------------------------------------------------------------------
\* Spec: two sessions from an empty store, two handlers in flight at a time,
\* the dispatcher and the cleanup task running.
Init ==
  /\ InitGlobals
  /\ InitEmptyStore
  /\ budget = MaxRequests

Next ==
  \/ \E sid \in {1, 2}, text \in {TextDup, TextIntel} :
       Receive(sid, text, 2)
  \/ \E req \in BagToSet(inflight), k \in {1} : Handle(req, k)
  \/ \E i \in 1..Len(tasks) : DispatchStart(i)
  \/ \E i \in 1..Len(tasks), outcome \in {"200"} :
       PostReturns(i, outcome)
  \/ SessionCleanup
  \/ \E d \in {1801} : Tick(d, MaxTime)

Spec == Init /\ [][Next]_vars

\* SpecLong: session 1 has had LongQuiet quiet messages; session 2 is new.
InitLong ==
  /\ InitGlobals
  /\ InitQuiet(LongQuiet)
  /\ budget = LongRequests

NextLong ==
  \/ \E sid \in {1, 2}, text \in {TextShortKw, TextDup, TextWeighted, TextIntelNoKw} :
       Receive(sid, text, 1)
  \/ \E req \in BagToSet(inflight), k \in {1} : Handle(req, k)

SpecLong == InitLong /\ [][NextLong]_vars

\* SpecHistory: session 1 has had HistoryQuiet quiet messages.
InitHistory ==
  /\ InitGlobals
  /\ InitQuiet(HistoryQuiet)
  /\ budget = HistoryRequests

NextHistory ==
  \/ \E text \in {TextHi, TextKw} : Receive(1, text, 1)
  \/ \E req \in BagToSet(inflight), k \in {1, 2, 5} : Handle(req, k)

SpecHistory == InitHistory /\ [][NextHistory]_vars

\* SpecLru: the store holds LruFilled sessions; requests touch old sessions
\* and create new ones.
InitLru ==
  /\ InitGlobals
  /\ InitFilled(LruFilled)
  /\ budget = LruRequests

NextLru ==
  \/ \E sid \in {1, 2, 3, 1001, 1002, 1003} : Receive(sid, TextHi, 1)
  \/ \E req \in BagToSet(inflight), k \in {1} : Handle(req, k)

SpecLru == InitLru /\ [][NextLru]_vars

\* SpecTtl: two sessions, the clock and the cleanup task.
InitTtl ==
  /\ InitGlobals
  /\ InitEmptyStore
  /\ budget = TtlRequests

NextTtl ==
  \/ \E sid \in {1, 2} : Receive(sid, TextHi, 1)
  \/ \E req \in BagToSet(inflight), k \in {1} : Handle(req, k)
  \/ SessionCleanup
  \/ \E d \in {600, 601} : Tick(d, TtlMaxTime)

SpecTtl == InitTtl /\ [][NextTtl]_vars


\* SpecScore: one session, messages with keywords in either case, repeated
\* and inside other words.
InitScore ==
  /\ InitGlobals
  /\ InitEmptyStore
  /\ budget = ScoreRequests

NextScore ==
  \/ \E text \in {TextPlain, TextKw, TextWeighted, TextIntel, TextUpper} :
       Receive(1, text, 1)
  \/ \E req \in BagToSet(inflight), k \in {1} : Handle(req, k)

SpecScore == InitScore /\ [][NextScore]_vars

\* SpecBreaker: BreakerFailed dispatches have failed, BreakerTasks are
\* waiting to run; posts return 200, another status, or raise.
InitBreaker == InitDispatched(BreakerFailed, BreakerTasks)

NextBreaker ==
  \/ \E i \in 1..Len(tasks) : DispatchStart(i)
  \/ \E i \in 1..Len(tasks), outcome \in {"200", "other", "error"} :
       PostReturns(i, outcome)
  \/ \E i \in 1..Len(tasks) : BackoffEnds(i)
  \/ \E d \in {150} : Tick(d, BreakerMaxTime)

SpecBreaker == InitBreaker /\ [][NextBreaker]_vars

\* SpecReopen: the breaker is open after ReopenFailed failed dispatches,
\* ReopenTasks dispatches are waiting to run; every post returns another
\* status than 200.
InitReopen == InitDispatched(ReopenFailed, ReopenTasks)

NextReopen ==
  \/ \E i \in 1..Len(tasks) : DispatchStart(i)
  \/ \E i \in 1..Len(tasks), outcome \in {"other"} :
       PostReturns(i, outcome)
  \/ \E d \in {150} : Tick(d, ReopenMaxTime)

SpecReopen == InitReopen /\ [][NextReopen]_vars

\* SpecDeliver: DeliverTasks dispatches are waiting to run; posts return
\* 200, another status, or raise.  The clock moves when a task sleeps in
\* its backoff; a task sleeps at most twice, 2 s at most.  The event loop
\* runs what can run, and every post returns or times out: weak fairness.
InitDeliver == InitDispatched(0, DeliverTasks)

SomeoneSleeps == \E i \in 1..Len(tasks) : tasks[i].pc = "sleeping" /\ tasks[i].wake > now

NextDeliver ==
  \/ \E i \in 1..Len(tasks) : DispatchStart(i)
  \/ \E i \in 1..Len(tasks), outcome \in {"200", "other", "error"} :
       PostReturns(i, outcome)
  \/ \E i \in 1..Len(tasks) : BackoffEnds(i)
  \/ \E d \in {2} : SomeoneSleeps /\ Tick(d, 4 * DeliverTasks)

SpecDeliver == InitDeliver /\ [][NextDeliver]_vars /\ WF_vars(NextDeliver)

\* SpecPatterns: one session, messages with and without keywords, with and
\* without identifiers and links.
InitPatterns ==
  /\ InitGlobals
  /\ InitEmptyStore
  /\ budget = PatternRequests

NextPatterns ==
  \/ \E text \in {TextShortKw, TextIntelNoKw, TextIntel, TextDup, TextOneCharUpi} :
       Receive(1, text, 1)
  \/ \E req \in BagToSet(inflight), k \in {1} : Handle(req, k)

SpecPatterns == InitPatterns /\ [][NextPatterns]_vars

\* SpecEndpoint: requests of every kind, with and without the API key, and
\* exceptions raised while a validated message is handled.
InitEndpoint ==
  /\ InitGlobals
  /\ InitEmptyStore
  /\ budget = EndpointRequests

NextEndpoint ==
  \/ \E key_ok \in BOOLEAN, kind \in PayloadKinds : Answer(key_ok, kind)
  \/ \E sid \in {1, 2}, text \in {TextKw, TextIntel} : Receive(sid, text, 1)
  \/ \E req \in BagToSet(inflight), k \in {1} : Handle(req, k)
  \/ \E req \in BagToSet(inflight), point \in FaultPoints : HandleFault(req, point)

SpecEndpoint == InitEndpoint /\ [][NextEndpoint]_vars

\* SpecReap: ReapSessions sessions had one message each at time 0; some
\* get another message later, a new one is created, the cleanup task runs.
InitReap ==
  /\ InitGlobals
  /\ InitFilled(ReapSessions)
  /\ budget = ReapRequests

NextReap ==
  \/ \E sid \in 1..(ReapSessions + 1) : Receive(sid, TextHi, 1)
  \/ \E req \in BagToSet(inflight), k \in {1} : Handle(req, k)
  \/ SessionCleanup
  \/ \E d \in {600, 601} : Tick(d, ReapMaxTime)

SpecReap == InitReap /\ [][NextReap]_vars

\* SpecSkip: the breaker is open, SkipTasks dispatches are waiting to run
\* and their sessions get further messages that satisfy the trigger
\* conditions.
InitSkip ==
  /\ Dispatched(CIRCUIT_BREAKER_THRESHOLD, SkipTasks)
  /\ budget = SkipRequests

NextSkip ==
  \/ \E sid \in (CIRCUIT_BREAKER_THRESHOLD + 1)..(CIRCUIT_BREAKER_THRESHOLD + SkipTasks) :
       Receive(sid, TextIntel, 1)
  \/ \E req \in BagToSet(inflight), k \in {1} : Handle(req, k)
  \/ \E i \in 1..Len(tasks) : DispatchStart(i)
  \/ \E i \in 1..Len(tasks), outcome \in {"200", "other"} :
       PostReturns(i, outcome)
  \/ \E d \in {150} : Tick(d, SkipMaxTime)

SpecSkip == InitSkip /\ [][NextSkip]_vars

\* SpecRemoval: the store is one short of full and session 1, the least
\* recently used, has had its report delivered; requests create new
\* sessions and come back to session 1, and the cleanup task runs.
InitRemoval ==
  /\ InitFilledAfterDelivery(RemovalFilled)
  /\ budget = RemovalRequests

NextRemoval ==
  \/ \E sid \in {1, 1001, 1002}, text \in {TextHi, TextIntel} :
       Receive(sid, text, 1)
  \/ \E req \in BagToSet(inflight), k \in {1} : Handle(req, k)
  \/ SessionCleanup
  \/ \E d \in {1801} : Tick(d, RemovalMaxTime)

SpecRemoval == InitRemoval /\ [][NextRemoval]_vars

\* ------------------------------------------------------------------------
\* Properties
\* ------------------------------------------------------------------------
\* the step is the handler accepting a message
HandleStep == handled' = handled + 1

\* how many send_callback tasks were created for object o
TasksFor(ts, o) == Cardinality({i \in 1..Len(ts) : ts[i].oid = o})

\* the cumulative keyword score of a session, from the extraction results
\* of the messages accepted for it
RECURSIVE ScoreOfLog(_)
ScoreOfLog(log) ==
  IF log = << >> THEN 0
  ELSE SumValues(Head(log).intel.keywords_found) + ScoreOfLog(Tail(log))

\* the raw matches of one bucket, over the messages accepted, in order
RECURSIVE MatchesOfLog(_, _)
MatchesOfLog(log, bucket) ==
  IF log = << >> THEN << >>
  ELSE Head(log).intel[bucket] \o MatchesOfLog(Tail(log), bucket)

FoundSensitive(intel) ==
  Len(intel.upi) + Len(intel.accounts) + Len(intel.urls) > 0

NoDuplicates(xs) == \A i, j \in 1..Len(xs) : xs[i] = xs[j] => i = j

Buckets == {"upi", "accounts", "urls"}

\* C1: for every session object, callback_sent never goes back from true to
\* false while the object is in the store, and at most one send_callback
\* task is ever created for it, whatever the order in which the suspended
\* handlers resume.
C1_Step ==
  /\ \A o \in Oids(sessions) \cap Oids(sessions') :
       heap[o].callback_sent => heap'[o].callback_sent
  /\ \A o \in Oids(sessions') :
       /\ TasksFor(tasks', o) <= 1
       /\ TasksFor(tasks', o) = 1 <=> heap'[o].callback_sent

C1_CallbackAtMostOnce == [][C1_Step]_vars

\* a session with its flag set and its one task, for which two messages
\* were accepted that each satisfy the trigger conditions on their own
C1_Witness ==
  \E o \in Oids(sessions) :
    /\ heap[o].callback_sent
    /\ TasksFor(tasks, o) = 1
    /\ Cardinality({i \in 1..Len(accepted[o]) : accepted[o][i].text = TextIntel}) >= 2

\* C2: on each accepted message a task is created and callback_sent set iff
\* callback_sent was false and either the count after the increment is
\* >= 15, or the cumulative keyword score, this message included, is >= 3
\* and this message's own extraction has a match; otherwise neither changes.
C2_Step ==
  HandleStep =>
    LET o == ev'.oid
        was_sent == o \in DOMAIN heap /\ heap[o].callback_sent
        fired == /\ Len(tasks') = Len(tasks) + 1
                 /\ tasks'[Len(tasks')].oid = o
                 /\ heap'[o].callback_sent
                 /\ ~was_sent
        confirmed == ScoreOfLog(accepted'[o]) >= 3 /\ FoundSensitive(ev'.intel)
    IN /\ fired <=> (~was_sent /\ (heap'[o].count >= 15 \/ confirmed))
       /\ ~fired => (tasks' = tasks /\ heap'[o].callback_sent = was_sent)

C2_TriggerIff == [][C2_Step]_vars

\* session 1 fired on its count alone; session 2 has a score >= 3 and a
\* match from an earlier message, its last message had none, and it did not
\* fire
C2_Witness ==
  /\ ev.op = "handle"
  /\ \E o \in Oids(sessions) :
       /\ heap[o].count >= 15
       /\ ScoreOfLog(accepted[o]) = 0
       /\ TasksFor(tasks, o) = 1
  /\ \E o \in Oids(sessions) :
       /\ ScoreOfLog(accepted[o]) >= 3
       /\ heap[o].intel.upi # << >>
       /\ ~FoundSensitive(accepted[o][Len(accepted[o])].intel)
       /\ ~heap[o].callback_sent
       /\ TasksFor(tasks, o) = 0

\* C3: a session whose interaction count is >= 15 has callback_sent set and
\* its dispatch scheduled, whatever its score and buckets.
C3_FallbackFires ==
  \A o \in Oids(sessions) :
    heap[o].count >= 15 => heap[o].callback_sent /\ TasksFor(tasks, o) = 1

\* the 15th message of a session with score 0 and empty buckets was handled
C3_Witness ==
  /\ ev.op = "handle"
  /\ heap[ev.oid].count = 15
  /\ SumValues(heap[ev.oid].keyword_counts) = 0
  /\ \A b \in Buckets : heap[ev.oid].intel[b] = << >>
  /\ heap[ev.oid].callback_sent
  /\ tasks # << >> /\ tasks[Len(tasks)].oid = ev.oid

\* C4: the store never holds more than 500 sessions.
C4_StoreWithinCapacity == Len(sessions) <= 500

\* a message created a session in a full store and a session was evicted
C4_Witness ==
  /\ ev.op = "handle"
  /\ ev.created
  /\ ev.evicted # {}
  /\ Len(sessions) = 500

\* the rank of the last message accepted for object o
LastRank(log, o) == log[o][Len(log[o])].rank

\* C5: every accepted message leaves its session last in the store, the
\* store is ordered by the sessions' last accepted messages, and a session
\* is evicted only by a creation in a full store and only if its last
\* accepted message is older than that of every session that stays.
C5_Step ==
  HandleStep =>
    /\ sessions'[Len(sessions')].sid = ev'.sid
    /\ \A i \in 1..(Len(sessions') - 1) :
         LastRank(accepted', sessions'[i].oid) < LastRank(accepted', sessions'[i + 1].oid)
    /\ \A o \in Oids(sessions) \ Oids(sessions') :
         /\ ev'.created
         /\ Len(sessions) = 500
         /\ \A p \in Oids(sessions) \cap Oids(sessions') :
              LastRank(accepted, o) < LastRank(accepted, p)

C5_LruOrder == [][C5_Step]_vars

\* session 1, the oldest, was touched, and the eviction took session 2
C5_Witness ==
  /\ ev.op = "handle"
  /\ ev.evicted = {2}
  /\ HasSession(sessions, 1)

\* C6: the history is the last min(n, 10) (incoming, reply) pairs of the n
\* messages accepted for the session, in order.
C6_HistoryIsLastTen ==
  \A o \in Oids(sessions) :
    LET log == accepted[o]
        n == Len(log)
        m == IF n < 10 THEN n ELSE 10
    IN /\ heap[o].count = n
       /\ Len(heap[o].history) = m
       /\ \A i \in 1..m :
            heap[o].history[i] = [ scammer |-> log[n - m + i].text,
                                   agent |-> log[n - m + i].reply ]

\* the 11th message was accepted and the history holds 10 pairs
C6_Witness ==
  /\ ev.op = "handle"
  /\ Len(accepted[ev.oid]) = 11
  /\ Len(heap[ev.oid].history) = 10

\* C7: no step lowers a session's cumulative keyword score or any
\* keyword's count.
C7_Step ==
  \A o \in (DOMAIN heap) \cap (DOMAIN heap') :
    /\ SumValues(heap'[o].keyword_counts) >= SumValues(heap[o].keyword_counts)
    /\ \A kw \in DOMAIN heap[o].keyword_counts :
         /\ kw \in DOMAIN heap'[o].keyword_counts
         /\ heap'[o].keyword_counts[kw] >= heap[o].keyword_counts[kw]

C7_KeywordCountsMonotone == [][C7_Step]_vars

\* the cleanup task removed a session and left one that has a score and has
\* had two messages with keywords
C7_Witness ==
  /\ ev.op = "cleanup"
  /\ ev.removed # {}
  /\ \E o \in Oids(sessions) :
       /\ SumValues(heap[o].keyword_counts) > 3
       /\ Len(accepted[o]) >= 2

\* C8 as stated: after a cleanup pass no session is left whose last
\* accepted message is 30 minutes (1800 s) or more in the past.
C8_Original ==
  ev.op = "cleanup" =>
    \A o \in Oids(sessions) : ~(now - heap[o].last_accessed >= 1800)

\* C8, amended: after a cleanup pass no session is left whose last accepted
\* message is more than 30 minutes in the past.
C8_ExpiredAreRemoved ==
  ev.op = "cleanup" =>
    \A o \in Oids(sessions) : ~(now - heap[o].last_accessed > 1800)

\* a cleanup pass removed a session and left one that is exactly 30 minutes
\* old
C8_Witness ==
  /\ ev.op = "cleanup"
  /\ ev.removed # {}
  /\ \E o \in Oids(sessions) : now - heap[o].last_accessed = 1800

\* C9: the session's buckets are the raw matches of its messages, in order
\* and with duplicates; the lists of the payload built from it have no
\* duplicates and the same elements.
C9_ReportIsUnion ==
  /\ \A o \in DOMAIN heap : \A b \in Buckets :
       heap[o].intel[b] = MatchesOfLog(accepted[o], b)
  /\ (ev.op = "dispatch_start" /\ tasks[ev.task].pc = "posting") =>
       LET log == accepted[tasks[ev.task].oid]
           report == tasks[ev.task].payload.extractedIntelligence
       IN /\ NoDuplicates(report.upiIds)
          /\ NoDuplicates(report.bankAccounts)
          /\ NoDuplicates(report.phishingLinks)
          /\ SetOf(report.upiIds) = SetOf(MatchesOfLog(log, "upi"))
          /\ SetOf(report.bankAccounts) = SetOf(MatchesOfLog(log, "accounts"))
          /\ SetOf(report.phishingLinks) = SetOf(MatchesOfLog(log, "urls"))

\* a payload was built from a bucket that holds two different matches, one
\* of them more than once
C9_Witness ==
  /\ ev.op = "dispatch_start"
  /\ tasks[ev.task].pc = "posting"
  /\ Len(tasks[ev.task].payload.extractedIntelligence.upiIds) = 2
  /\ Len(heap[tasks[ev.task].oid].intel.upi) > 2

\* what a message shorter than 10 characters leaves alone, callback_sent
\* and the tasks apart
C10_Frame(o, before) ==
  /\ ev'.intel = EmptyIntel
  /\ heap'[o].keyword_counts = before.keyword_counts
  /\ heap'[o].intel = before.intel
  /\ heap'[o].scam_score = before.scam_score
  /\ heap'[o].created_at = before.created_at
  /\ heap'[o].count = before.count + 1
  /\ heap'[o].last_accessed = now
  /\ sessions'[Len(sessions')].oid = o

\* C10 as stated: a message shorter than 10 characters changes nothing of
\* the session but count, last_accessed, rank, history and reply category.
C10_OriginalStep ==
  (HandleStep /\ Len(ev'.text) < 10) =>
    LET o == ev'.oid
        before == IF ev'.created THEN SessionState(now) ELSE heap[o]
    IN /\ C10_Frame(o, before)
       /\ heap'[o].callback_sent = before.callback_sent
       /\ tasks' = tasks

C10_Original == [][C10_OriginalStep]_vars

\* C10, amended: ... and callback_sent, which is set, with a task created,
\* exactly when the message brings the count to 15 or more and
\* callback_sent was false.
C10_Step ==
  (HandleStep /\ Len(ev'.text) < 10) =>
    LET o == ev'.oid
        before == IF ev'.created THEN SessionState(now) ELSE heap[o]
        fallback == heap'[o].count >= 15 /\ ~before.callback_sent
    IN /\ C10_Frame(o, before)
       /\ heap'[o].callback_sent = (before.callback_sent \/ fallback)
       /\ Len(tasks') = Len(tasks) + (IF fallback THEN 1 ELSE 0)

C10_ShortMessageFrame == [][C10_Step]_vars

\* a 9-character message with a keyword and a UPI-shaped substring was
\* handled for a session that has a score and a match
C10_Witness ==
  /\ ev.op = "handle"
  /\ ev.text = TextShortKw
  /\ SumValues(heap[ev.oid].keyword_counts) > 0
  /\ heap[ev.oid].intel.upi # << >>

\* the character c is the lower-case letter l in either case
SameLetter(c, l) ==
  c = l \/ \E n \in 1..26 : LowerLetters[n] = l /\ UpperLetters[n] = c

\* the positions of text at which keyword kw occurs, case ignored
OccurrencesAt(text, kw) ==
  {p \in 1..Len(text) :
     /\ p + Len(kw) - 1 <= Len(text)
     /\ \A j \in 1..Len(kw) : SameLetter(text[p + j - 1], kw[j])}

\* the number of occurrences of each keyword in each text of the model
OccurrencesOf ==
  [t \in Texts |->
     [n \in 1..Len(SCAM_KEYWORDS) |-> Cardinality(OccurrencesAt(t, SCAM_KEYWORDS[n]))]]

RECURSIVE SumOccurrences(_, _)
SumOccurrences(t, n) ==
  IF n = 0 THEN 0 ELSE OccurrencesOf[t][n] + SumOccurrences(t, n - 1)

\* a keyword's count in a keyword dict, 0 when the keyword is not a key
CountIn(counts, kw) == IF kw \in DOMAIN counts THEN counts[kw] ELSE 0

\* C11: for a message of at least 10 characters the per-call keyword score
\* is the number of occurrences of the keywords of the vocabulary in the
\* text, case ignored, and each keyword's cumulative count grows by its
\* number of occurrences in the message.
C11_Step ==
  (HandleStep /\ Len(ev'.text) >= 10) =>
    LET o == ev'.oid
        before == IF ev'.created THEN << >> ELSE heap[o].keyword_counts
    IN /\ SumValues(ev'.intel.keywords_found)
            = SumOccurrences(ev'.text, Len(SCAM_KEYWORDS))
       /\ \A n \in 1..Len(SCAM_KEYWORDS) :
            CountIn(heap'[o].keyword_counts, SCAM_KEYWORDS[n])
              = CountIn(before, SCAM_KEYWORDS[n]) + OccurrencesOf[ev'.text][n]

C11_KeywordScoreCountsOccurrences == [][C11_Step]_vars

\* "urgent urgent urgent verify verify otp" scored 6 on a session that had
\* counts already, and "URGENT: Verify OTP" was scored before it
C11_Witness ==
  /\ ev.op = "handle"
  /\ ev.text = TextWeighted
  /\ SumValues(ev.intel.keywords_found) = 6
  /\ Len(accepted[ev.oid]) >= 2
  /\ accepted[ev.oid][1].text = TextUpper
  /\ heap[ev.oid].keyword_counts[SCAM_KEYWORDS[1]] = 4

\* the step is the third post of a dispatch failing
ExhaustStep ==
  /\ ev'.op = "post_returns"
  /\ ev'.outcome # "200"
  /\ tasks[ev'.task].pc = "posting"
  /\ tasks[ev'.task].posts = 3

\* C12: the failure counter grows by one with each dispatch that exhausts
\* its attempts and by nothing else; the breaker goes from closed to open
\* exactly in the step that takes the counter from 4 to 5, with the
\* deadline 300 s after that instant; an open breaker has 5 or more
\* failures counted.
C12_Step ==
  LET failed == metrics.total_callbacks_failed
      failed1 == metrics'.total_callbacks_failed
      opened == ~metrics.circuit_breaker_active /\ metrics'.circuit_breaker_active
  IN /\ ExhaustStep => failed1 = failed + 1
     /\ ~ExhaustStep => (failed1 = failed \/ failed1 = 0)
     /\ opened <=> (failed = 4 /\ failed1 = 5)
     /\ opened => metrics'.circuit_breaker_until = now + 300
     /\ metrics'.circuit_breaker_active => failed1 >= 5

C12_BreakerOpensAtFive == [][C12_Step]_vars

\* the breaker is open at the fifth failure, which a dispatch of another
\* session than the fourth made at time 150, with the deadline at 450
C12_Witness ==
  /\ ev.op = "post_returns"
  /\ metrics.circuit_breaker_active
  /\ metrics.total_callbacks_failed = 5
  /\ metrics.circuit_breaker_until = 450
  /\ Len(failed_callbacks) = 5
  /\ failed_callbacks[4].session_id # failed_callbacks[5].session_id

\* C13: a dispatch that starts while the breaker is open and the deadline
\* has not passed ends with failure, has posted nothing, and leaves the
\* counters, the breaker and the failure queue as they were.
C13_Step ==
  ( /\ ev'.op = "dispatch_start"
    /\ tasks[ev'.task].pc = "scheduled"
    /\ metrics.circuit_breaker_active
    /\ now < metrics.circuit_breaker_until ) =>
      /\ tasks'[ev'.task].pc = "done"
      /\ tasks'[ev'.task].result = FALSE
      /\ tasks'[ev'.task].posts = 0
      /\ metrics' = metrics
      /\ failed_callbacks' = failed_callbacks

C13_OpenBreakerSkips == [][C13_Step]_vars

\* a dispatch was skipped 150 s after the breaker opened
C13_Witness ==
  /\ ev.op = "dispatch_start"
  /\ tasks[ev.task].pc = "done"
  /\ tasks[ev.task].posts = 0
  /\ metrics.circuit_breaker_active
  /\ metrics.circuit_breaker_until = 300
  /\ now = 150

\* C18 as stated: the failure counter is between 0 and 4 in every state,
\* the breaker open or closed, being reset when the breaker opens.
C18_Original ==
  /\ metrics.total_callbacks_failed \in 0..4
  /\ metrics.circuit_breaker_active => metrics.total_callbacks_failed = 0

\* the step is a dispatch starting with the breaker open and the deadline
\* reached
ResetStep ==
  /\ ev'.op = "dispatch_start"
  /\ tasks[ev'.task].pc = "scheduled"
  /\ metrics.circuit_breaker_active
  /\ now >= metrics.circuit_breaker_until

\* C14: a dispatch that starts with the breaker open and the deadline
\* reached closes the breaker, sets the failure counter to 0 and makes its
\* first post; a dispatch fails only after 3 posts; with the breaker closed
\* a failed dispatch that takes the counter to 4 or less leaves it closed.
C14_Step ==
  /\ ResetStep =>
       /\ ~metrics'.circuit_breaker_active
       /\ metrics'.total_callbacks_failed = 0
       /\ metrics'.total_callbacks_sent = metrics.total_callbacks_sent
       /\ tasks'[ev'.task].pc = "posting"
       /\ tasks'[ev'.task].posts = 1
       /\ tasks'[ev'.task].attempt = 0
  /\ \A i \in 1..Len(tasks) :
       (tasks[i].pc = "posting" /\ tasks'[i].pc = "done" /\ ~tasks'[i].result) =>
         /\ tasks[i].posts = 3
         /\ metrics'.total_callbacks_failed = metrics.total_callbacks_failed + 1
         /\ (~metrics.circuit_breaker_active /\ metrics.total_callbacks_failed < 4)
              => ~metrics'.circuit_breaker_active

C14_ElapsedDeadlineResets == [][C14_Step]_vars

\* the breaker, open at the start, is closed with 4 failures counted: the
\* dispatch that reset it at time 300 failed after 3 posts and so did
\* three more
C14_Witness ==
  /\ ~metrics.circuit_breaker_active
  /\ metrics.total_callbacks_failed = 4
  /\ Len(failed_callbacks) = ReopenFailed + 4
  /\ \A i \in (ReopenFailed + 1)..Len(tasks) :
       tasks[i].pc = "done" /\ tasks[i].posts = 3
  /\ now = 300

\* what a step does to dispatch i
C20_TaskStep(i) ==
  LET returns == ev'.op = "post_returns" /\ ev'.task = i /\ tasks[i].pc = "posting"
  IN /\ tasks'[i].posts <= 3
     /\ tasks'[i].posts \in {tasks[i].posts, tasks[i].posts + 1}
     /\ tasks'[i].pc \in {"posting", "sleeping"} => tasks'[i].posts >= 1
     /\ tasks[i].pc = "done" => tasks'[i] = tasks[i]
     /\ (tasks[i].pc = "scheduled" /\ tasks'[i].pc = "done") =>
          metrics.circuit_breaker_active
     /\ (tasks[i].pc # "scheduled" /\ tasks[i].pc # "done" /\ tasks'[i].pc = "done") =>
          tasks'[i].posts \in 1..3
     /\ (returns /\ ev'.outcome = "200") =>
          /\ tasks'[i].pc = "done"
          /\ tasks'[i].result = TRUE
          /\ tasks'[i].posts = tasks[i].posts
     /\ (returns /\ ev'.outcome # "200") =>
          IF tasks[i].posts < 3
          THEN /\ tasks'[i].pc \in {"posting", "sleeping"}
               /\ tasks'[i].pc = "posting" => tasks'[i].posts = tasks[i].posts + 1
          ELSE /\ tasks'[i].pc = "done"
               /\ tasks'[i].result = FALSE

C20_Step == \A i \in 1..Len(tasks) : C20_TaskStep(i)

C20_AllDone ==
  \A i \in 1..Len(tasks) : tasks[i].pc = "done" /\ tasks[i].result \in BOOLEAN

\* C20: a dispatch that passes the gate makes between 1 and 3 posts, none
\* after a 200, one more after another status or an exception unless it was
\* the third, and every dispatch ends, with success or failure.
C20_DeliveryAttempts == [][C20_Step]_vars /\ <>C20_AllDone

\* one dispatch succeeded at its third post after an exception and another
\* status, one failed after three posts
C20_Witness ==
  /\ \E i \in 1..Len(tasks) :
       /\ tasks[i].pc = "done" /\ tasks[i].result
       /\ tasks[i].posts = 3 /\ tasks[i].wake = 1
  /\ \E i \in 1..Len(tasks) :
       /\ tasks[i].pc = "done" /\ ~tasks[i].result
       /\ tasks[i].posts = 3

\* C19: a handled message adds to each bucket, and returns, the matches of
\* that bucket's pattern in its text if the text has 10 or more characters
\* and at least one occurrence of a keyword, and nothing otherwise,
\* whatever the session's cumulative score.
C19_Step ==
  HandleStep =>
    LET o == ev'.oid
        text == ev'.text
        scanned == Len(text) >= 10 /\ SumOccurrences(text, Len(SCAM_KEYWORDS)) > 0
    IN \A b \in Buckets :
         LET before == IF ev'.created THEN << >> ELSE heap[o].intel[b]
             added == IF scanned THEN FindAll(b, text) ELSE << >>
         IN /\ ev'.intel[b] = added
            /\ heap'[o].intel[b] = before \o added

C19_PatternsOnlyWithKeyword == [][C19_Step]_vars

\* "pay ab@ybl 123456789 http://x.co" was handled for a session with a
\* score and added nothing: the buckets hold what "otp ab@ybl ab@ybl" and
\* then "Send money to test@upi and account 1234567890123 or visit
\* http://scam.com urgent urgent" gave
C19_Witness ==
  /\ ev.op = "handle"
  /\ ev.text = TextIntelNoKw
  /\ SumValues(heap[ev.oid].keyword_counts) = 4
  /\ heap[ev.oid].intel.upi
       = << SubSeq(TextDup, 5, 10), SubSeq(TextDup, 12, 17), SubSeq(TextIntel, 15, 22) >>
  /\ heap[ev.oid].intel.accounts = << SubSeq(TextIntel, 36, 48) >>
  /\ heap[ev.oid].intel.urls = << SubSeq(TextIntel, 59, 73) >>

\* C15 as stated: every request ends with status 401, or with status 200
\* and a reply that is not empty.
C15_Original ==
  ev.op \in {"answer", "handle", "fault"} =>
    \/ ev.response.status = 401
    \/ ev.response.status = 200 /\ ev.response.reply # ""

\* C16 as stated: when an exception is raised while a validated message is
\* handled the caller gets the fallback reply and the store, the session
\* objects and the dispatches are as before the message.
C16_OriginalStep ==
  ev'.op = "fault" =>
    /\ ev'.response = [status |-> 200, reply |-> FALLBACK]
    /\ sessions' = sessions
    /\ heap' = heap
    /\ tasks' = tasks

C16_Original == [][C16_OriginalStep]_vars

\* C17 as stated: a session identifier is answered at most 10 times in 60
\* seconds.
C17_Original ==
  \A o \in Oids(sessions) :
    heap[o].last_accessed - heap[o].created_at < 60 => Len(accepted[o]) <= 10

\* C21 as stated: a post that fails, with another status or an exception,
\* and is not the third leaves the dispatch asleep until 2^attempt seconds
\* later, and the next post is made when the sleep ends; after the third
\* post the dispatch ends without a sleep.
C21_OriginalStep ==
  \A i \in 1..Len(tasks) :
    /\ ( /\ ev'.op = "post_returns" /\ ev'.task = i
         /\ ev'.outcome # "200"
         /\ tasks[i].pc = "posting" ) =>
           IF tasks[i].attempt < 2
           THEN /\ tasks'[i].pc = "sleeping"
                /\ tasks'[i].wake = now + 2 ^ tasks[i].attempt
                /\ tasks'[i].posts = tasks[i].posts
           ELSE tasks'[i].pc = "done"
    /\ tasks'[i].posts = tasks[i].posts + 1 /\ tasks[i].posts >= 1 =>
         /\ tasks[i].pc = "sleeping"
         /\ now >= tasks[i].wake

C21_Original == [][C21_OriginalStep]_vars

\* the step is a post of dispatch i returning 200
SuccessStep(i) ==
  /\ ev'.op = "post_returns" /\ ev'.task = i
  /\ ev'.outcome = "200"
  /\ tasks[i].pc = "posting"

\* C22: a post that returns 200 ends the dispatch with success, adds one to
\* the success counter and leaves the failure counter, the breaker, its
\* deadline and the failure queue as they were; no other step changes the
\* success counter.
C22_Step ==
  /\ \A i \in 1..Len(tasks) :
       SuccessStep(i) =>
         /\ tasks'[i].pc = "done" /\ tasks'[i].result = TRUE
         /\ metrics'.total_callbacks_sent = metrics.total_callbacks_sent + 1
         /\ metrics'.total_callbacks_failed = metrics.total_callbacks_failed
         /\ metrics'.circuit_breaker_active = metrics.circuit_breaker_active
         /\ metrics'.circuit_breaker_until = metrics.circuit_breaker_until
         /\ failed_callbacks' = failed_callbacks
  /\ (\A i \in 1..Len(tasks) : ~SuccessStep(i)) =>
       metrics'.total_callbacks_sent = metrics.total_callbacks_sent

C22_SuccessKeepsFailures == [][C22_Step]_vars

\* four dispatches had failed, the next one succeeded, and the failure of
\* the one after it opened the breaker as the fifth
C22_Witness ==
  /\ metrics.total_callbacks_sent = 1
  /\ metrics.total_callbacks_failed = 5
  /\ metrics.circuit_breaker_active
  /\ tasks[BreakerFailed + 1].pc = "done" /\ tasks[BreakerFailed + 1].result = TRUE
  /\ ev.op = "post_returns" /\ ev.task = BreakerFailed + 2

\* the step is the third post of dispatch i failing
ExhaustedBy(i) ==
  /\ ev'.op = "post_returns" /\ ev'.task = i
  /\ ev'.outcome # "200"
  /\ tasks[i].pc = "posting"
  /\ tasks[i].posts = 3

\* C23: the failure queue grows only at its end, by the one record of a
\* dispatch whose third post failed: the session id, the payload it posted
\* and the time; that dispatch ends with failure.  A dispatch that has
\* ended makes no further post, and a dispatch is only ever created by the
\* handler accepting a message, never for a record of the queue.
C23_Step ==
  /\ Len(failed_callbacks') >= Len(failed_callbacks)
  /\ SubSeq(failed_callbacks', 1, Len(failed_callbacks)) = failed_callbacks
  /\ \A i \in 1..Len(tasks) :
       /\ ExhaustedBy(i) =>
            /\ failed_callbacks' =
                 Append(failed_callbacks,
                        [ session_id |-> tasks[i].sid,
                          payload |-> tasks[i].payload,
                          timestamp |-> now ])
            /\ tasks'[i].pc = "done" /\ tasks'[i].result = FALSE
       /\ tasks[i].pc = "done" => tasks'[i] = tasks[i]
  /\ (\A i \in 1..Len(tasks) : ~ExhaustedBy(i)) =>
       failed_callbacks' = failed_callbacks
  /\ Len(tasks') # Len(tasks) => ev'.op = "handle"

TriggerAt(log, n) ==
  \/ n >= 15
  \/ /\ ScoreOfLog(SubSeq(log, 1, n)) >= 3
     /\ FoundSensitive(log[n].intel)

\* the message of the log on which callback_sent was set
FiredAt(log) ==
  CHOOSE n \in 1..Len(log) :
    TriggerAt(log, n) /\ \A m \in 1..(n - 1) : ~TriggerAt(log, m)

\* the keywords counted over the messages of the log
KeywordsOfLog(log) ==
  UNION {DOMAIN log[i].intel.keywords_found : i \in 1..Len(log)}

\* C24 as stated: the payload a dispatch builds has the interaction count,
\* the matches and the keywords of the session as it was when the trigger
\* fired, whatever was handled for the session between the trigger and the
\* start of the dispatch.
C24_Original ==
  (ev.op = "dispatch_start" /\ tasks[ev.task].pc = "posting") =>
    LET log == accepted[tasks[ev.task].oid]
        snapshot == SubSeq(log, 1, FiredAt(log))
        payload == tasks[ev.task].payload
        report == payload.extractedIntelligence
    IN /\ payload.totalMessagesExchanged = Len(snapshot)
       /\ SetOf(report.upiIds) = SetOf(MatchesOfLog(snapshot, "upi"))
       /\ SetOf(report.bankAccounts) = SetOf(MatchesOfLog(snapshot, "accounts"))
       /\ SetOf(report.phishingLinks) = SetOf(MatchesOfLog(snapshot, "urls"))
       /\ report.suspiciousKeywords = KeywordsOfLog(snapshot)

\* the place of session object o in the store
PlaceOf(store, o) == CHOOSE i \in 1..Len(store) : store[i].oid = o

\* C25: a pass of the cleanup task removes, in its one step, exactly the
\* sessions last accessed earlier than 1800 s before the pass; the others
\* stay with their identifier, their state and their order among
\* themselves, and the pass handles no message and creates no dispatch.
C25_Step ==
  ev'.op = "cleanup" =>
    LET gone == {o \in Oids(sessions) : heap[o].last_accessed < now - 1800}
    IN /\ Oids(sessions') = Oids(sessions) \ gone
       /\ Len(sessions') = Cardinality(Oids(sessions'))
       /\ ev'.removed = {sessions[i].sid : i \in {j \in 1..Len(sessions) :
                                                   sessions[j].oid \in gone}}
       /\ \A o \in Oids(sessions') :
            /\ heap'[o] = heap[o]
            /\ sessions'[PlaceOf(sessions', o)] = sessions[PlaceOf(sessions, o)]
       /\ \A a, b \in Oids(sessions') :
            PlaceOf(sessions', a) < PlaceOf(sessions', b)
              <=> PlaceOf(sessions, a) < PlaceOf(sessions, b)
       /\ handled' = handled /\ inflight' = inflight /\ tasks' = tasks
       /\ now' = now

C25_ReaperRemovesExactlyExpired == [][C25_Step]_vars

\* a pass removed a session and left two, the one used less recently being
\* the one created later
C25_Witness ==
  /\ ev.op = "cleanup"
  /\ ev.removed # {}
  /\ Len(sessions) = 2
  /\ sessions[1].sid > sessions[2].sid
  /\ heap[sessions[1].oid].last_accessed < heap[sessions[2].oid].last_accessed

\* dispatch i ended at the breaker gate
Skipped(ts, i) == ts[i].pc = "done" /\ ts[i].posts = 0

\* C26: a dispatch that finds the breaker open appends nothing to the
\* failure queue and changes no counter; it never posts afterwards; a
\* message accepted for a session whose callback_sent is set creates no
\* dispatch and leaves the flag set, so the session object of a skipped
\* dispatch never has another dispatch and its report is never posted.
C26_Step ==
  /\ ( /\ ev'.op = "dispatch_start"
       /\ metrics.circuit_breaker_active
       /\ now < metrics.circuit_breaker_until ) =>
         /\ Skipped(tasks', ev'.task)
         /\ failed_callbacks' = failed_callbacks
         /\ metrics' = metrics
         /\ heap'[tasks[ev'.task].oid] = heap[tasks[ev'.task].oid]
  /\ \A i \in 1..Len(tasks) :
       Skipped(tasks, i) =>
         /\ tasks'[i] = tasks[i]
         /\ heap'[tasks[i].oid].callback_sent
         /\ TasksFor(tasks', tasks[i].oid) = 1
         /\ \A r \in 1..Len(failed_callbacks') :
              failed_callbacks'[r].session_id # tasks[i].sid
  /\ (ev'.op = "handle" /\ ev'.oid \in DOMAIN heap /\ heap[ev'.oid].callback_sent) =>
       tasks' = tasks

C26_SkippedIsNeverMadeUp == [][C26_Step]_vars

\* a dispatch was skipped; later, the deadline of the breaker passed, a
\* message that satisfies the trigger conditions was accepted for its
\* session, and no dispatch was created
C26_Witness ==
  /\ ev.op = "handle"
  /\ now >= metrics.circuit_breaker_until
  /\ \E i \in 1..Len(tasks) :
       /\ Skipped(tasks, i)
       /\ ev.oid = tasks[i].oid
       /\ FoundSensitive(ev.intel)
       /\ SumValues(heap[ev.oid].keyword_counts) >= 3
  /\ Len(tasks) = CIRCUIT_BREAKER_THRESHOLD + SkipTasks

\* dispatch i has passed the gate and has not ended
Running(ts, i) == ts[i].pc \in {"posting", "sleeping"}

\* C27: only a dispatch that has not started can end at the gate; with the
\* breaker open, a running dispatch goes on as with the breaker closed: a
\* failed post that is not its third is followed by another, a 200 ends it
\* with success, and its third failed post adds one to the failure counter,
\* leaves the breaker open and sets the deadline to 300 s after that
\* instant.
C27_Step ==
  \A i \in 1..Len(tasks) :
    /\ (Skipped(tasks', i) /\ ~Skipped(tasks, i)) => tasks[i].pc = "scheduled"
    /\ ( /\ Running(tasks, i)
         /\ metrics.circuit_breaker_active
         /\ ev'.op \in {"post_returns", "backoff_ends"}
         /\ ev'.task = i ) =>
           CASE ev'.op = "backoff_ends" ->
                  /\ tasks'[i].pc = "posting"
                  /\ tasks'[i].posts = tasks[i].posts + 1
                  /\ metrics' = metrics
             [] ev'.op = "post_returns" /\ ev'.outcome = "200" ->
                  /\ tasks'[i].pc = "done" /\ tasks'[i].result = TRUE
                  /\ metrics'.circuit_breaker_active
             [] ev'.op = "post_returns" /\ ev'.outcome # "200" /\ tasks[i].posts < 3 ->
                  /\ Running(tasks', i)
                  /\ metrics' = metrics
             [] ev'.op = "post_returns" /\ ev'.outcome # "200" /\ tasks[i].posts >= 3 ->
                  /\ tasks'[i].pc = "done" /\ tasks'[i].result = FALSE
                  /\ metrics'.total_callbacks_failed = metrics.total_callbacks_failed + 1
                  /\ metrics'.circuit_breaker_active
                  /\ metrics'.circuit_breaker_until = now + 300

C27_GateOnlyAtStart == [][C27_Step]_vars

\* two dispatches passed the gate with the breaker closed; the failure of
\* one opened it at time 0, the other went on posting and failed at time
\* 150 as the sixth, moving the deadline from 300 to 450
C27_Witness ==
  /\ ev.op = "post_returns"
  /\ metrics.circuit_breaker_active
  /\ metrics.total_callbacks_failed = 6
  /\ metrics.circuit_breaker_until = 450
  /\ failed_callbacks[5].timestamp = 0
  /\ failed_callbacks[6].timestamp = 150
  /\ \A i \in 1..Len(tasks) : tasks[i].posts = 3

\* C28 as stated: after the message that creates a session again for an
\* identifier that was removed from the store, the session has count 1,
\* empty buckets, empty keyword counts, one history entry and callback_sent
\* false, whatever the message.  The identifiers 1..RemovalFilled are those
\* that were in the store at the start.
C28_OriginalStep ==
  (HandleStep /\ ev'.created /\ ev'.sid \in 1..RemovalFilled) =>
    LET session == heap'[ev'.oid]
    IN /\ session.count = 1
       /\ session.intel = [upi |-> << >>, accounts |-> << >>, urls |-> << >>]
       /\ session.keyword_counts = << >>
       /\ Len(session.history) = 1
       /\ ~session.callback_sent

C28_Original == [][C28_OriginalStep]_vars

\* C28, amended: a message accepted for an identifier that is not in the store,
\* whether it never was or was removed by the eviction or by the cleanup
\* task, gets a new session object that holds what this message alone
\* gives: count 1, one history entry, the matches and keyword counts of
\* this message only, callback_sent set iff this message fired the trigger.
\* A new object is made only for an identifier that is not in the store,
\* and an object has one dispatch at most, so two dispatches of one
\* identifier belong to two objects, the identifier having left the store
\* in between.
C28_Step ==
  /\ HandleStep =>
       LET o == ev'.oid
           session == heap'[o]
       IN /\ ev'.created <=> ~HasSession(sessions, ev'.sid)
          /\ ev'.created <=> o \notin DOMAIN heap
          /\ ev'.created =>
               /\ session.count = 1
               /\ session.created_at = now
               /\ Len(session.history) = 1
               /\ session.history[1].scammer = ev'.text
               /\ session.intel = [ upi |-> ev'.intel.upi,
                                    accounts |-> ev'.intel.accounts,
                                    urls |-> ev'.intel.urls ]
               /\ session.keyword_counts = ev'.intel.keywords_found
               /\ session.callback_sent <=> Len(tasks') = Len(tasks) + 1
               /\ accepted'[o] = << [ text |-> ev'.text,
                                      reply |-> ev'.response.reply,
                                      intel |-> ev'.intel,
                                      rank |-> handled' ] >>
  /\ \A i, j \in 1..Len(tasks') :
       (i # j /\ tasks'[i].sid = tasks'[j].sid) => tasks'[i].oid # tasks'[j].oid
  /\ \A o \in (DOMAIN heap) \ Oids(sessions) : o \notin Oids(sessions')

C28_RemovedLeavesNothing == [][C28_Step]_vars

\* session 1, whose report had been delivered, was evicted by the creation
\* of two sessions; the next message for identifier 1 created a session
\* and fired a second dispatch for that identifier
C28_Witness ==
  /\ ev.op = "handle"
  /\ ev.created
  /\ ev.sid = 1
  /\ now = 0
  /\ Len(tasks) = 2
  /\ tasks[1].sid = 1 /\ tasks[2].sid = 1
  /\ heap[ev.oid].count = 1

====
